---- MODULE Spec2Model ----
(***************************************************************************)
(* A model of the text-adventure engine of src/adventure.py, of its two    *)
(* drivers (the interactive loop of src/adventure.py and the simulator of  *)
(* src/simulation.py), of the event log of src/event_logger.py and of the  *)
(* pick up / drop / use engine of src/adven2.py.                           *)
(*                                                                         *)
(* The engine's methods are operators from a game record g (the fields of  *)
(* AdventureGame, the items of every Location and the lines printed so     *)
(* far) to the game record after the call; the drivers are the actions.    *)
(***************************************************************************)
EXTENDS Integers, Sequences, FiniteSets, TLC

(***************************************************************************)
(* Bounds of the model.                                                    *)
(***************************************************************************)
\* The number of commands a session reads (the length of the simulator's
\* command list, the number of lines the player types).
MaxCommands == 3
\* The number of (item, action) answers given inside one "inventory" menu.
MaxInvOps == 1
\* The number of Event objects created for one EventList.
MaxEvents == 4
\* The moves of a player who keeps moving: as many as the starting timer has
\* ticks, so that moves costing a tick each run the timer down.
MaxMoves == 8
\* The commands a player issues before setting off.
MaxPreparations == 3

(***************************************************************************)
(* Python values.                                                          *)
(***************************************************************************)
\* None, where a command string is expected (Event.next_command).
None == "None"
\* None, where an Event reference is expected (first, last, next, prev).
NoEvent == 0
\* The empty dict {}.
EmptyDict == <<>>

Range(s) == {s[i] : i \in 1..Len(s)}

\* dict.get(key, default)
Get(d, key, default) == IF key \in DOMAIN d THEN d[key] ELSE default

\* max(0, n)
Max0(n) == IF n < 0 THEN 0 ELSE n

\* One printed line: the text (or its fixed part) and the number it shows.
Line(text, n) == [text |-> text, n |-> n]

(***************************************************************************)
(* The world: the content of the game data file, as _load_game_data        *)
(* returns it.                                                             *)
(***************************************************************************)
\* data["items"]: Item objects by name.
Items ==
    [name \in {"Lucky Mug", "USB Drive", "Laptop Charger", "Shawarma Wrap", "Energy Drink"} |->
        CASE name = "Lucky Mug" ->
                [name |-> name, target_points |-> 10, edible |-> FALSE,
                 restore_value |-> 0, special_effect |-> None]
          [] name = "USB Drive" ->
                [name |-> name, target_points |-> 20, edible |-> FALSE,
                 restore_value |-> 0, special_effect |-> None]
          [] name = "Laptop Charger" ->
                [name |-> name, target_points |-> 30, edible |-> FALSE,
                 restore_value |-> 0, special_effect |-> None]
          [] name = "Shawarma Wrap" ->
                [name |-> name, target_points |-> 5, edible |-> TRUE,
                 restore_value |-> 2, special_effect |-> None]
          [] name = "Energy Drink" ->
                [name |-> name, target_points |-> 1, edible |-> TRUE,
                 restore_value |-> 0, special_effect |-> "energize"]]

\* str.lower() on the item names of the world.
lower(s) ==
    CASE s = "Lucky Mug" -> "lucky mug"
      [] s = "USB Drive" -> "usb drive"
      [] s = "Laptop Charger" -> "laptop charger"
      [] s = "Shawarma Wrap" -> "shawarma wrap"
      [] s = "Energy Drink" -> "energy drink"
      [] OTHER -> s

ItemKeys == {lower(n) : n \in DOMAIN Items}

\* data["locations"]: id -> available_commands (command -> destination id).
LocationIds == {0, 1}

available_commands ==
    [id \in LocationIds |->
        IF id = 0 THEN [c \in {"exit"} |-> 1] ELSE [c \in {"go home"} |-> 0]]

\* data["locations"][..]["items"]: the items lying at each location at load.
StartItems ==
    [id \in LocationIds |->
        IF id = 1 THEN <<"Lucky Mug", "USB Drive", "Laptop Charger">>
                  ELSE <<"Energy Drink">>]

\* data["initial_flags"]
InitialFlags ==
    [f \in {"wrap_given", "thanked", "cart_arrived"} |-> FALSE]

\* Every flag name the world mentions ("locker_open" is not set at load).
FlagNames == {"wrap_given", "thanked", "cart_arrived", "locker_open"}

\* data["rules"], in authored order.
Rules ==
    << [when |-> [moves_at_least |-> 1, flags |-> [cart_arrived |-> FALSE]],
        then |-> << [type |-> "spawn_item_here", item |-> "Shawarma Wrap"],
                    [type |-> "set_flag", flag |-> "cart_arrived", value |-> TRUE],
                    [type |-> "print", message |-> "A food cart rolls in."] >>],
       [when |-> [moves_at_least |-> 2],
        then |-> << [type |-> "spawn_item_here", item |-> "Energy Drink"],
                    [type |-> "print", message |-> "The clock ticks."] >>],
       [when |-> [flags |-> [wrap_given |-> TRUE]],
        then |-> << [type |-> "print", message |-> "Reuben waves."] >>],
       [when |-> [flags |-> [cart_arrived |-> TRUE]],
        then |-> << [type |-> "print", message |-> "The cart bell rings."] >>] >>

\* data["npcs"]
Npcs ==
    << [name |-> "reuben", location |-> 1,
        dialogue |->
          << [requires |-> [flags |-> [wrap_given |-> FALSE]],
              say |-> "Take this wrap.",
              effects |-> << [type |-> "add_item_to_inventory", item |-> "Shawarma Wrap",
                              count |-> 2],
                             [type |-> "set_flag", flag |-> "wrap_given", value |-> TRUE] >>],
             [requires |-> [flags |-> [wrap_given |-> TRUE, thanked |-> FALSE]],
              say |-> "Good luck!",
              effects |-> << [type |-> "add_item_to_inventory", item |-> "Energy Drink",
                              count |-> 0],
                             [type |-> "set_flag", flag |-> "thanked", value |-> TRUE] >>],
             [say |-> "Busy day.",
              effects |-> << >>] >>],
       [name |-> "guard", location |-> 0,
        dialogue |->
          << [requires |-> [flags |-> [wrap_given |-> TRUE]],
              say |-> "Off you go.",
              effects |-> << [type |-> "add_item_to_inventory", item |-> "Energy Drink"] >>] >>] >>

\* data["interactions"]
Interactions ==
    << [command |-> "open locker", locations |-> <<1>>,
        requires |-> [flags |-> [wrap_given |-> TRUE]],
        effects |-> << [type |-> "print", message |-> "The locker swings open."],
                       [type |-> "set_flag", flag |-> "locker_open", value |-> TRUE] >>],
       [command |-> "eat energy drink", locations |-> <<0>>,
        effects |-> << >>],
       [command |-> "press button", locations |-> <<0>>,
        requires |-> [flags |-> [cart_arrived |-> TRUE]],
        effects |-> << [type |-> "print", message |-> "The cart answers."] >>],
       [command |-> "press button", locations |-> <<0>>,
        effects |-> << [type |-> "print", message |-> "Click."] >>] >>

\* data["settings"]
Settings ==
    [movement_timer_start |-> 8, health_bar_start |-> 1,
     movement_costs |-> [timer_range |-> <<2, 3>>]]

\* The menu of both drivers (settings has no "menu": the default list).
Menu == <<"look", "inventory", "score", "log", "search", "quit">>

\* The location a session starts at.
InitialLocationId == 0

(***************************************************************************)
(* The game record after AdventureGame.__init__.                           *)
(***************************************************************************)
NewGame ==
    [current_location_id |-> InitialLocationId,
     ongoing             |-> TRUE,
     inventory           |-> EmptyDict,
     score               |-> 0,
     moves_made          |-> 0,
     health_bar          |-> Get(Settings, "health_bar_start", 10),
     movement_timer      |-> Get(Settings, "movement_timer_start", 120),
     energized           |-> FALSE,
     flags               |-> InitialFlags,
     items               |-> StartItems,
     out                 |-> <<>>]

Say(g, text, n) == [g EXCEPT !.out = Append(@, Line(text, n))]

(***************************************************************************)
(* AdventureGame.update_inventory, add_item_to_inventory                   *)
(***************************************************************************)
\* inventory[key] with its count raised by n, the entry created if absent.
Stock(inventory, item_name, n) ==
    LET key == lower(item_name)
    IN  IF key \in DOMAIN inventory
            THEN [inventory EXCEPT ![key].count = @ + n]
            ELSE inventory @@ (key :> [item |-> item_name, count |-> n])

\* The loop "for item in loc_items" from its i-th item on.
RECURSIVE update_inventory_from(_, _, _)
update_inventory_from(g, loc_items, i) ==
    IF i > Len(loc_items) THEN g
    ELSE LET item == Items[loc_items[i]]
             g1 == [Say(g, "Points gained", item.target_points)
                        EXCEPT !.score = @ + item.target_points,
                               !.inventory = Stock(@, item.name, 1)]
         IN  update_inventory_from(g1, loc_items, i + 1)

\* A variant of update_inventory that leaves the location's list as it is.
update_inventory_uncleared(g, loc) ==
    update_inventory_from(g, g.items[loc], 1)

\* update_inventory(location.items) for the location loc.
update_inventory(g, loc) ==
    [update_inventory_from(g, g.items[loc], 1) EXCEPT !.items[loc] = <<>>]

add_item_to_inventory(g, item_name, count) ==
    LET item == Items[item_name]
    IN  [g EXCEPT !.score = @ + item.target_points,
                  !.inventory = Stock(@, item.name, count)]

(***************************************************************************)
(* AdventureGame.manage_inventory, consume_item                            *)
(***************************************************************************)
\* del d[key]
Del(d, key) == [k \in DOMAIN d \ {key} |-> d[k]]

\* The end of manage_inventory's loop body: the entry is deleted when its new
\* count is <= 0 and stored otherwise.
StoreCount(g, target, count) ==
    [g EXCEPT !.inventory = IF count <= 0 THEN Del(@, target)
                            ELSE [@ EXCEPT ![target].count = count]]

\* The two "if" of eating: restore_value and the "energize" special effect.
Digest(g, item_obj) ==
    LET g1 == IF item_obj.restore_value > 0
                  THEN Say([g EXCEPT !.health_bar = @ + item_obj.restore_value,
                                     !.energized = FALSE],
                           "Hunger satiated!", g.health_bar + item_obj.restore_value)
                  ELSE g
    IN  IF item_obj.special_effect = "energize"
            THEN Say([g1 EXCEPT !.energized = TRUE], "You are now ENERGIZED", 0)
            ELSE g1

\* One pass of manage_inventory's "while True" loop, the player answering
\* op.target to the first prompt and op.action to the second.
manage_inventory_pass(g, loc, op) ==
    IF op.target \notin DOMAIN g.inventory THEN g
    ELSE LET item_obj == Items[g.inventory[op.target].item]
             count == g.inventory[op.target].count
         IN  CASE op.action = "drop" ->
                    StoreCount(Say([g EXCEPT !.items[loc] = Append(@, item_obj.name)],
                                   "Dropped", 0),
                               op.target, count - 1)
               [] op.action = "eat" /\ item_obj.edible ->
                    StoreCount(Digest(Say(g, "You consume", 0), item_obj),
                               op.target, count - 1)
               [] OTHER -> g

RECURSIVE manage_inventory_from(_, _, _, _)
manage_inventory_from(g, loc, ops, i) ==
    IF i > Len(ops) THEN g
    ELSE manage_inventory_from(manage_inventory_pass(g, loc, ops[i]), loc, ops, i + 1)

\* manage_inventory(current_location), the player giving the answers ops and
\* then "exit".
manage_inventory(g, loc, ops) ==
    IF DOMAIN g.inventory = {} THEN Say(g, "Your inventory is empty!", 0)
    ELSE manage_inventory_from(g, loc, ops, 1)

consume_item(g, item_name) ==
    LET target_key == lower(item_name)
    IN  IF target_key \notin DOMAIN g.inventory
            THEN Say(g, "You don't have that item.", 0)
        ELSE LET item_obj == Items[g.inventory[target_key].item]
             IN  IF ~item_obj.edible THEN Say(g, "You can't eat that!", 0)
                 ELSE LET g1 == Digest(Say(g, "You consume", 0), item_obj)
                          g2 == [g1 EXCEPT !.inventory[target_key].count = @ - 1]
                      IN  IF g2.inventory[target_key].count <= 0
                              THEN [g2 EXCEPT !.inventory = Del(@, target_key)]
                              ELSE g2

(***************************************************************************)
(* AdventureGame.requirements_met                                          *)
(***************************************************************************)
\* The loop over requires["flags"].items(), todo being the flags not yet
\* visited: False at the first flag whose stored value (None when absent)
\* differs from the expected one.
\* A variant of flag_differs that reads an absent flag as False.
flag_differs_default(flags, flag, expected_value) ==
    Get(flags, flag, FALSE) # expected_value

\* self.flags.get(flag) != expected: an absent flag reads None, which differs
\* from either boolean.
flag_differs(flags, flag, expected_value) ==
    flag \notin DOMAIN flags \/ flags[flag] # expected_value

RECURSIVE requirements_loop(_, _, _)
requirements_loop(flags, expected, todo) ==
    IF todo = {} THEN TRUE
    ELSE LET flag == CHOOSE f \in todo : TRUE
         IN  IF flag_differs(flags, flag, expected[flag])
                 THEN FALSE
                 ELSE requirements_loop(flags, expected, todo \ {flag})

requirements_met(g, requires) ==
    IF DOMAIN requires = {} THEN TRUE
    ELSE LET expected == Get(requires, "flags", EmptyDict)
         IN  requirements_loop(g.flags, expected, DOMAIN expected)

(***************************************************************************)
(* AdventureGame.apply_effects, apply_rules                                *)
(***************************************************************************)
\* One effect of the list, by its "type".
apply_effect(g, effect) ==
    LET effect_type == Get(effect, "type", None)
    IN  CASE effect_type = "print" -> Say(g, effect.message, 0)
          [] effect_type = "set_flag" ->
                [g EXCEPT !.flags = IF effect.flag \in DOMAIN @
                                        THEN [@ EXCEPT ![effect.flag] = effect.value]
                                        ELSE @ @@ (effect.flag :> effect.value)]
          [] effect_type = "spawn_item_here" ->
                [g EXCEPT !.items[g.current_location_id] = Append(@, Items[effect.item].name)]
          [] effect_type = "add_item_to_inventory" ->
                add_item_to_inventory(g, effect.item, Get(effect, "count", 1))
          [] OTHER -> g

RECURSIVE apply_effects_from(_, _, _)
apply_effects_from(g, effects, i) ==
    IF i > Len(effects) THEN g
    ELSE apply_effects_from(apply_effect(g, effects[i]), effects, i + 1)

apply_effects(g, effects) == apply_effects_from(g, effects, 1)

\* A variant of apply_rule that does not test the rule's flag requirement.
apply_rule_unguarded(g, rule) ==
    LET when == Get(rule, "when", EmptyDict)
    IN  IF g.moves_made < Get(when, "moves_at_least", 0) THEN g
        ELSE apply_effects(g, Get(rule, "then", <<>>))

\* The body of apply_rules' loop for one rule.
apply_rule(g, rule) ==
    LET when == Get(rule, "when", EmptyDict)
    IN  IF g.moves_made < Get(when, "moves_at_least", 0) THEN g
        ELSE IF ~requirements_met(g, when) THEN g
        ELSE apply_effects(g, Get(rule, "then", <<>>))

\* A variant of apply_rules that tests every rule against the state the sweep
\* started in (g0) while applying the effects to the running state g.
RECURSIVE apply_rules_snapshot_from(_, _, _)
apply_rules_snapshot_from(g0, g, i) ==
    IF i > Len(Rules) THEN g
    ELSE LET when == Get(Rules[i], "when", EmptyDict)
             fires == /\ g0.moves_made >= Get(when, "moves_at_least", 0)
                      /\ requirements_met(g0, when)
         IN  apply_rules_snapshot_from(
                 g0, IF fires THEN apply_effects(g, Get(Rules[i], "then", <<>>)) ELSE g, i + 1)

apply_rules_snapshot(g) == apply_rules_snapshot_from(g, g, 1)

RECURSIVE apply_rules_from(_, _)
apply_rules_from(g, i) ==
    IF i > Len(Rules) THEN g
    ELSE apply_rules_from(apply_rule(g, Rules[i]), i + 1)

apply_rules(g) == apply_rules_from(g, 1)

(***************************************************************************)
(* AdventureGame.get_special_commands, run_talk, run_interaction           *)
(***************************************************************************)
\* [x for x in s if P(x)], for the indices of a sequence.
RECURSIVE Indices(_, _, _)
Indices(s, Keep(_), i) ==
    IF i > Len(s) THEN <<>>
    ELSE (IF Keep(s[i]) THEN <<i>> ELSE <<>>) \o Indices(s, Keep, i + 1)

get_special_commands(g) ==
    LET loc_id == g.current_location_id
        HereNpc(npc) == npc.location = loc_id
        Listed(inter) == /\ loc_id \in Range(Get(inter, "locations", <<>>))
                         /\ requirements_met(g, Get(inter, "requires", EmptyDict))
        talks == Indices(Npcs, HereNpc, 1)
        inters == Indices(Interactions, Listed, 1)
    IN  [k \in 1..Len(talks) |-> "talk " \o Npcs[talks[k]].name]
            \o [k \in 1..Len(inters) |-> Interactions[inters[k]].command]

\* A variant of run_dialogue without the "return" after a line was said.
RECURSIVE run_dialogue_all(_, _, _)
run_dialogue_all(g, dialogue, i) ==
    IF i > Len(dialogue) THEN g
    ELSE IF requirements_met(g, Get(dialogue[i], "requires", EmptyDict))
        THEN run_dialogue_all(apply_effects(Say(g, Get(dialogue[i], "say", ""), 0),
                                            Get(dialogue[i], "effects", <<>>)),
                              dialogue, i + 1)
        ELSE run_dialogue_all(g, dialogue, i + 1)

\* The loop over one NPC's dialogue from line i on: the first line whose
\* requirement is met is said and applied; "break" when there is none.
RECURSIVE run_dialogue(_, _, _)
run_dialogue(g, dialogue, i) ==
    IF i > Len(dialogue) THEN Say(g, "No one by that name is here.", 0)
    ELSE IF requirements_met(g, Get(dialogue[i], "requires", EmptyDict))
        THEN apply_effects(Say(g, Get(dialogue[i], "say", ""), 0),
                           Get(dialogue[i], "effects", <<>>))
        ELSE run_dialogue(g, dialogue, i + 1)

\* The loop over the NPCs from the i-th on.
RECURSIVE run_talk_from(_, _, _)
run_talk_from(g, name, i) ==
    IF i > Len(Npcs) THEN Say(g, "No one by that name is here.", 0)
    ELSE IF Npcs[i].location # g.current_location_id \/ Npcs[i].name # name
        THEN run_talk_from(g, name, i + 1)
        ELSE run_dialogue(g, Get(Npcs[i], "dialogue", <<>>), 1)

run_talk(g, name) == run_talk_from(g, name, 1)

\* The loop over the interactions from the i-th on.
RECURSIVE run_interaction_from(_, _, _)
run_interaction_from(g, command, i) ==
    IF i > Len(Interactions) THEN g
    ELSE LET inter == Interactions[i]
         IN  IF /\ g.current_location_id \in Range(Get(inter, "locations", <<>>))
                /\ inter.command = command
                 THEN IF requirements_met(g, Get(inter, "requires", EmptyDict))
                          THEN apply_effects(g, Get(inter, "effects", <<>>))
                          ELSE Say(g, "You can't do that yet.", 0)
                 ELSE run_interaction_from(g, command, i + 1)

run_interaction(g, command) == run_interaction_from(g, command, 1)

(***************************************************************************)
(* AdventureGame._decrement_timer, move, search_location, check_win        *)
(***************************************************************************)
\* The values random.randint(low, high) can return for the configured range.
timer_range == Get(Get(Settings, "movement_costs", EmptyDict), "timer_range", <<5, 8>>)
BaseCosts == timer_range[1]..timer_range[2]

\* A variant of decrement_timer in which the halving and the doubling both
\* apply when the player is energized and starving.
decrement_timer_stacked(g, base_cost) ==
    LET halved == IF g.energized THEN base_cost \div 2 ELSE base_cost
        time_cost == IF g.health_bar <= 0 THEN halved * 2 ELSE halved
        g1 == [g EXCEPT !.movement_timer = Max0(@ - time_cost),
                        !.health_bar = @ - 1]
        g2 == Say(Say(g1, "Time Passed", time_cost), "Time Remaining", g1.movement_timer)
    IN  IF g2.movement_timer <= 0
            THEN [Say(g2, "GAME OVER.", 0) EXCEPT !.ongoing = FALSE]
            ELSE g2

\* A variant of decrement_timer that ends the game only below zero.
decrement_timer_late(g, base_cost) ==
    LET time_cost == IF g.energized THEN base_cost \div 2
                     ELSE IF g.health_bar <= 0 THEN base_cost * 2
                     ELSE base_cost
        g1 == [g EXCEPT !.movement_timer = Max0(@ - time_cost),
                        !.health_bar = @ - 1]
        g2 == Say(Say(g1, "Time Passed", time_cost), "Time Remaining", g1.movement_timer)
    IN  IF g2.movement_timer < 0
            THEN [Say(g2, "GAME OVER.", 0) EXCEPT !.ongoing = FALSE]
            ELSE g2

\* _decrement_timer, random.randint having returned base_cost.
decrement_timer(g, base_cost) ==
    LET time_cost == IF g.energized THEN base_cost \div 2
                     ELSE IF g.health_bar <= 0 THEN base_cost * 2
                     ELSE base_cost
        g1 == [g EXCEPT !.movement_timer = Max0(@ - time_cost),
                        !.health_bar = @ - 1]
        g2 == Say(Say(g1, "Time Passed", time_cost), "Time Remaining", g1.movement_timer)
    IN  IF g2.movement_timer <= 0
            THEN [Say(g2, "GAME OVER.", 0) EXCEPT !.ongoing = FALSE]
            ELSE g2

\* A variant of move that skips the rule sweep once the game is over.
move_without_final_sweep(g, command, base_cost) ==
    LET g1 == [g EXCEPT !.current_location_id =
                            available_commands[g.current_location_id][command]]
        g2 == decrement_timer(g1, base_cost)
        g3 == [g2 EXCEPT !.moves_made = @ + 1]
    IN  IF g3.ongoing THEN apply_rules(g3) ELSE g3

move(g, command, base_cost) ==
    LET g1 == [g EXCEPT !.current_location_id =
                            available_commands[g.current_location_id][command]]
        g2 == decrement_timer(g1, base_cost)
        g3 == [g2 EXCEPT !.moves_made = @ + 1]
    IN  apply_rules(g3)

\* A variant of search_location that ends the turn with the rule sweep.
search_location_swept(g) ==
    apply_rules(IF g.items[g.current_location_id] # <<>>
                    THEN update_inventory(Say(g, "You found", 0), g.current_location_id)
                    ELSE Say(g, "You turned up empty handed!", 0))

search_location(g) ==
    IF g.items[g.current_location_id] # <<>>
        THEN update_inventory(Say(g, "You found", 0), g.current_location_id)
        ELSE Say(g, "You turned up empty handed!", 0)

\* check_win's win location and required items.
WinLocationId == 0
required_items == <<"lucky mug", "usb drive", "laptop charger">>

\* The win predicate: at the win location, every required item in inventory.
has_all(g) == \A i \in 1..Len(required_items) : required_items[i] \in DOMAIN g.inventory

check_win(g) ==
    IF g.current_location_id = WinLocationId /\ has_all(g)
        THEN LET time_bonus == g.movement_timer
                 g1 == [g EXCEPT !.score = @ + time_bonus]
             IN  [Say(Say(Say(g1, "Time Bonus", time_bonus), "Final Score", g1.score),
                      "YOU WIN!", 0)
                    EXCEPT !.ongoing = FALSE]
        ELSE g

(***************************************************************************)
(* EventList (src/event_logger.py): the Event objects created so far, by   *)
(* index, and the list's two references.                                   *)
(***************************************************************************)
\* EventList.__init__
NewEventList == [events |-> <<>>, first |-> NoEvent, last |-> NoEvent]

is_empty(L) == L.first = NoEvent /\ L.last = NoEvent

\* Event(id_num, description): a new object, next_command, next and prev None.
\* The description is the location's long description, a function of id_num.
Event(id_num) ==
    [id_num |-> id_num, next_command |-> None, next |-> NoEvent, prev |-> NoEvent]

\* A variant of add_event that stores the command on the new event.
add_event_on_new(L, id_num, command) ==
    LET event == Len(L.events) + 1
        created == [L EXCEPT !.events = Append(@, Event(id_num))]
    IN  IF is_empty(L)
            THEN [created EXCEPT !.first = event, !.last = event]
            ELSE [created EXCEPT !.events[L.last].next = event,
                                 !.events[event].next_command = command,
                                 !.events[event].prev = L.last,
                                 !.last = event]

\* add_event(Event(id_num, ..), command)
add_event(L, id_num, command) ==
    LET event == Len(L.events) + 1
        created == [L EXCEPT !.events = Append(@, Event(id_num))]
    IN  IF is_empty(L)
            THEN [created EXCEPT !.first = event, !.last = event]
            ELSE [created EXCEPT !.events[L.last].next = event,
                                 !.events[L.last].next_command = command,
                                 !.events[event].prev = L.last,
                                 !.last = event]

\* first == last on two references: Event is a dataclass, so two objects are
\* compared field by field in declaration order (id_num, description,
\* next_command, next, prev), a field holding the same object on both sides
\* being equal without a look inside; a reference and None differ. The
\* description is a function of id_num. fuel bounds the recursion by the number
\* of objects, which an acyclic chain never exhausts.
RECURSIVE event_eq(_, _, _, _)
event_eq(L, a, b, fuel) ==
    IF a = b THEN TRUE
    ELSE IF a = NoEvent \/ b = NoEvent \/ fuel = 0 THEN FALSE
    ELSE /\ L.events[a].id_num = L.events[b].id_num
         /\ L.events[a].next_command = L.events[b].next_command
         /\ event_eq(L, L.events[a].next, L.events[b].next, fuel - 1)
         /\ event_eq(L, L.events[a].prev, L.events[b].prev, fuel - 1)

\* A variant of remove_last_event that leaves the new last event's next as it is.
remove_last_event_keep_next(L) ==
    IF ~is_empty(L)
        THEN IF event_eq(L, L.first, L.last, Len(L.events))
                 THEN [L EXCEPT !.first = NoEvent, !.last = NoEvent]
                 ELSE LET new_last == L.events[L.last].prev
                      IN  [L EXCEPT !.last = new_last,
                                    !.events[new_last].next_command = None]
        ELSE L

\* A variant of remove_last_event that leaves the new last event's
\* next_command as it is.
remove_last_event_keep_command(L) ==
    IF ~is_empty(L)
        THEN IF event_eq(L, L.first, L.last, Len(L.events))
                 THEN [L EXCEPT !.first = NoEvent, !.last = NoEvent]
                 ELSE LET new_last == L.events[L.last].prev
                      IN  [L EXCEPT !.last = new_last,
                                    !.events[new_last].next = NoEvent]
        ELSE L

\* remove_last_event()
remove_last_event(L) ==
    IF ~is_empty(L)
        THEN IF event_eq(L, L.first, L.last, Len(L.events))
                 THEN [L EXCEPT !.first = NoEvent, !.last = NoEvent]
                 ELSE LET new_last == L.events[L.last].prev
                      IN  [L EXCEPT !.last = new_last,
                                    !.events[new_last].next = NoEvent,
                                    !.events[new_last].next_command = None]
        ELSE L

\* get_id_log's loop from the event curr on; fuel bounds the walk by the
\* number of objects, which a well-formed list never exhausts.
RECURSIVE id_log_from(_, _, _)
id_log_from(L, curr, fuel) ==
    IF curr = NoEvent \/ fuel = 0 THEN <<>>
    ELSE <<L.events[curr].id_num>> \o id_log_from(L, L.events[curr].next, fuel - 1)

get_id_log(L) == id_log_from(L, L.first, Len(L.events))

\* The next_command of the events from curr on, in list order
\* (what display_events prints beside each id).
RECURSIVE command_log_from(_, _, _)
command_log_from(L, curr, fuel) ==
    IF curr = NoEvent \/ fuel = 0 THEN <<>>
    ELSE <<L.events[curr].next_command>>
            \o command_log_from(L, L.events[curr].next, fuel - 1)

display_events(L) == command_log_from(L, L.first, Len(L.events))

(***************************************************************************)
(* Command strings.                                                        *)
(***************************************************************************)
\* The lines a player types or a command list holds.
CommandInputs ==
    Range(Menu) \cup {"exit", "go home", "talk reuben", "talk guard",
                      "open locker", "eat energy drink", "press button", "dance"}

\* The inputs that have a word and a space in front of a name, split there.
Split ==
    [c \in {"talk reuben", "talk guard", "eat energy drink"} |->
        CASE c = "talk reuben" -> <<"talk ", "reuben">>
          [] c = "talk guard" -> <<"talk ", "guard">>
          [] c = "eat energy drink" -> <<"eat ", "energy drink">>]

\* choice.startswith(prefix), for the prefixes "talk " and "eat ".
startswith(c, prefix) == c \in DOMAIN Split /\ Split[c][1] = prefix

\* choice.replace(prefix, "", 1) on a choice that starts with prefix.
strip_prefix(c, prefix) == Split[c][2]

(***************************************************************************)
(* State.                                                                  *)
(***************************************************************************)
VARIABLES
    current_location_id,  \* AdventureGame.current_location_id
    ongoing,              \* AdventureGame.ongoing
    inventory,            \* AdventureGame.inventory: key -> [item, count]
    score,                \* AdventureGame.score
    moves_made,           \* AdventureGame.moves_made
    health_bar,           \* AdventureGame.health_bar
    movement_timer,       \* AdventureGame.movement_timer
    energized,            \* AdventureGame.energized
    flags,                \* AdventureGame.flags
    items,                \* Location.items of every location
    out,                  \* the lines the engine has printed
    events, first, last,  \* the driver's EventList
    driver,               \* "interactive" (adventure.py) or "simulation"
    pc,                   \* where the driver's loop body stands
    choice,               \* the command being executed
    issued,               \* the commands executed so far, in order
    rng,                  \* the generator of the random module
    twin,                 \* a second simulation session, or None
    doc,                  \* a game data document handed to the loader, or None
    loaded,               \* what _load_game_data made of doc
    adven2                \* the AdventureGame of src/adven2.py, or None

gamevars == <<current_location_id, ongoing, inventory, score, moves_made,
              health_bar, movement_timer, energized, flags, items, out>>
logvars == <<events, first, last>>
loadvars == <<doc, loaded>>
detvars == <<rng, twin, loadvars, adven2>>
vars == <<gamevars, logvars, driver, pc, choice, issued, detvars>>

\* The game record of the current state.
Game ==
    [current_location_id |-> current_location_id,
     ongoing             |-> ongoing,
     inventory           |-> inventory,
     score               |-> score,
     moves_made          |-> moves_made,
     health_bar          |-> health_bar,
     movement_timer      |-> movement_timer,
     energized           |-> energized,
     flags               |-> flags,
     items               |-> items,
     out                 |-> out]

\* The next state's game is the record g.
SetGame(g) ==
    /\ current_location_id' = g.current_location_id
    /\ ongoing' = g.ongoing
    /\ inventory' = g.inventory
    /\ score' = g.score
    /\ moves_made' = g.moves_made
    /\ health_bar' = g.health_bar
    /\ movement_timer' = g.movement_timer
    /\ energized' = g.energized
    /\ flags' = g.flags
    /\ items' = g.items
    /\ out' = g.out

Log == [events |-> events, first |-> first, last |-> last]

SetLog(L) ==
    /\ events' = L.events
    /\ first' = L.first
    /\ last' = L.last

(***************************************************************************)
(* The interactive loop (src/adventure.py, __main__).                      *)
(***************************************************************************)
\* all_actions: the menu, the location's movement commands and the special
\* commands, as a set (the loop only tests membership).
all_actions(g) ==
    Range(Menu) \cup DOMAIN available_commands[g.current_location_id]
                \cup Range(get_special_commands(g))

\* The branch of the loop's if/elif chain that a validated choice takes.
loop_branch(g, c) ==
    IF c = "log" THEN "log"
    ELSE IF c = "quit" THEN "quit"
    ELSE IF c = "inventory" THEN "inventory"
    ELSE IF c = "search" THEN "search"
    ELSE IF c = "look" THEN "look"
    ELSE IF c = "score" THEN "score"
    ELSE IF startswith(c, "eat ") THEN "eat"
    ELSE IF startswith(c, "talk ") THEN "talk"
    ELSE IF c \in Range(get_special_commands(g)) THEN "interaction"
    ELSE "move"

\* The chain's effect on the game: base_cost is what random.randint returns
\* if the branch draws, ops the answers given inside the inventory menu.
dispatch(g, c, base_cost, ops) ==
    LET branch == loop_branch(g, c)
    IN  CASE branch = "log" -> g
          [] branch = "quit" -> [g EXCEPT !.ongoing = FALSE]
          [] branch = "inventory" -> manage_inventory(g, g.current_location_id, ops)
          [] branch = "search" -> search_location(g)
          [] branch = "look" -> g
          [] branch = "score" -> Say(g, "Score", g.score)
          [] branch = "eat" -> consume_item(g, strip_prefix(c, "eat "))
          [] branch = "talk" -> run_talk(g, strip_prefix(c, "talk "))
          [] branch = "interaction" -> run_interaction(g, c)
          [] OTHER -> move(g, c, base_cost)

\* The answers a player can give inside one inventory menu before "exit".
InvOp == [target : ItemKeys, action : {"drop", "eat"}]
InvOps == UNION {[1..k -> InvOp] : k \in 0..MaxInvOps}

\* One pass of "while game.ongoing" up to the call of check_win, the player
\* typing a choice of the given branch.
LoopTurn(branch) ==
    /\ driver = "interactive" /\ pc = "prompt"
    /\ ongoing
    /\ Len(issued) < MaxCommands
    /\ \E c \in CommandInputs :
        /\ c \in all_actions(Game)
        /\ loop_branch(Game, c) = branch
        /\ \E base_cost \in (IF branch = "move" THEN BaseCosts ELSE {0}),
              ops \in (IF branch = "inventory" THEN InvOps ELSE {<<>>}) :
                SetGame(dispatch(Game, c, base_cost, ops))
        /\ choice' = c
        /\ issued' = Append(issued, c)
    /\ pc' = "check_win"
    /\ UNCHANGED <<logvars, driver, detvars>>

LoopLog == LoopTurn("log")
LoopQuit == LoopTurn("quit")
LoopInventory == LoopTurn("inventory")
LoopSearch == LoopTurn("search")
LoopLook == LoopTurn("look")
LoopScore == LoopTurn("score")
LoopEat == LoopTurn("eat")
LoopTalk == LoopTurn("talk")
LoopInteraction == LoopTurn("interaction")
LoopMove == LoopTurn("move")

\* "while choice not in all_actions": the choice is refused and asked again.
LoopInvalid ==
    /\ driver = "interactive" /\ pc = "prompt"
    /\ ongoing
    /\ \E c \in CommandInputs : c \notin all_actions(Game)
    /\ UNCHANGED vars

\* game.check_win() at the end of the pass.
LoopCheckWin ==
    /\ driver = "interactive" /\ pc = "check_win"
    /\ SetGame(check_win(Game))
    /\ pc' = "add_event"
    /\ UNCHANGED <<logvars, driver, choice, issued, detvars>>

\* game_log.add_event(Event(resulting_loc.id_num, ..), choice)
LoopAddEvent ==
    /\ driver = "interactive" /\ pc = "add_event"
    /\ SetLog(add_event(Log, current_location_id, choice))
    /\ pc' = "prompt"
    /\ UNCHANGED <<gamevars, driver, choice, issued, detvars>>

(***************************************************************************)
(* The simulator (src/simulation.py).                                      *)
(***************************************************************************)
\* _execute_command's all_actions.
sim_all_actions(g) ==
    Range(Menu) \cup DOMAIN available_commands[g.current_location_id]
                \cup Range(get_special_commands(g))

\* The command passes _execute_command's check (no ValueError).
sim_valid(g, command) ==
    ~(command \notin sim_all_actions(g) /\ ~startswith(command, "talk "))

\* The keys of _menu_handlers().
menu_handlers == {"log", "quit", "look", "search", "inventory", "score"}

\* _run_search(location)
run_search(g, loc) ==
    IF g.items[loc] # <<>>
        THEN update_inventory(Say(g, "You found", 0), loc)
        ELSE Say(g, "You turned up empty handed!", 0)

\* _print_inventory()
print_inventory(g) ==
    IF DOMAIN g.inventory = {} THEN Say(g, "Your inventory is empty!", 0) ELSE g

\* The branch of _execute_command's if/elif chain a valid command takes.
sim_branch(g, command) ==
    IF command \in menu_handlers THEN command
    ELSE IF startswith(command, "talk ") THEN "talk"
    ELSE IF command \in Range(get_special_commands(g)) THEN "interaction"
    ELSE "move"

\* _execute_command(command) on a valid command.
execute_command(g, command, base_cost) ==
    LET branch == sim_branch(g, command)
    IN  CASE branch = "log" -> g
          [] branch = "quit" -> [g EXCEPT !.ongoing = FALSE]
          [] branch = "look" -> g
          [] branch = "search" -> run_search(g, g.current_location_id)
          [] branch = "inventory" -> print_inventory(g)
          [] branch = "score" -> Say(g, "Score", g.score)
          [] branch = "talk" -> run_talk(g, strip_prefix(command, "talk "))
          [] branch = "interaction" -> run_interaction(g, command)
          [] OTHER -> move(g, command, base_cost)

\* One pass of "for command in commands" up to add_event, the list holding a
\* command of the given branch next.
SimTurn(branch) ==
    /\ driver = "simulation" /\ pc = "prompt"
    /\ Len(issued) < MaxCommands
    /\ \E command \in CommandInputs :
        /\ sim_valid(Game, command)
        /\ sim_branch(Game, command) = branch
        /\ \E base_cost \in (IF branch = "move" THEN BaseCosts ELSE {0}) :
                SetGame(execute_command(Game, command, base_cost))
        /\ choice' = command
        /\ issued' = Append(issued, command)
    /\ pc' = "add_event"
    /\ UNCHANGED <<logvars, driver, detvars>>

SimLog == SimTurn("log")
SimQuit == SimTurn("quit")
SimLook == SimTurn("look")
SimSearch == SimTurn("search")
SimInventory == SimTurn("inventory")
SimScore == SimTurn("score")
SimTalk == SimTurn("talk")
SimInteraction == SimTurn("interaction")
SimMove == SimTurn("move")

\* "raise ValueError": the constructor is left, nothing below it runs.
SimRaise ==
    /\ driver = "simulation" /\ pc = "prompt"
    /\ Len(issued) < MaxCommands
    /\ \E command \in CommandInputs : ~sim_valid(Game, command)
    /\ pc' = "raised"
    /\ UNCHANGED <<gamevars, logvars, driver, choice, issued, detvars>>

\* self._events.add_event(Event(current.id_num, ..), command)
SimAddEvent ==
    /\ driver = "simulation" /\ pc = "add_event"
    /\ SetLog(add_event(Log, current_location_id, choice))
    /\ pc' = "prompt"
    /\ UNCHANGED <<gamevars, driver, choice, issued, detvars>>

(***************************************************************************)
(* The specification.                                                      *)
(***************************************************************************)
\* DEFAULT_SIMULATION_SEED and one other seed.
DEFAULT_SIMULATION_SEED == 2026
Seeds == {DEFAULT_SIMULATION_SEED, 7}

\* The module-level generator before any random.seed: seeded lists the seeds
\* given to random.seed so far, calls counts the draws since the last of
\* them, and streams[seed] holds the values the generator yields after
\* random.seed(seed), as far as a session has reached them.
NewGenerator == [seeded |-> <<>>, calls |-> 0, streams |-> [s \in Seeds |-> <<>>]]

\* Either driver after its set-up: the game constructed, the starting
\* location's Event added to the new EventList.
Start ==
    /\ current_location_id = NewGame.current_location_id
    /\ ongoing = NewGame.ongoing
    /\ inventory = NewGame.inventory
    /\ score = NewGame.score
    /\ moves_made = NewGame.moves_made
    /\ health_bar = NewGame.health_bar
    /\ movement_timer = NewGame.movement_timer
    /\ energized = NewGame.energized
    /\ flags = NewGame.flags
    /\ items = NewGame.items
    /\ out = NewGame.out
    /\ events = add_event(NewEventList, InitialLocationId, None).events
    /\ first = add_event(NewEventList, InitialLocationId, None).first
    /\ last = add_event(NewEventList, InitialLocationId, None).last
    /\ pc = "prompt"
    /\ choice = None
    /\ issued = <<>>
    /\ rng = NewGenerator
    /\ loaded = [raised |-> None, returned |-> FALSE]

\* One session of either driver. The generator is the free choice of
\* base_cost in the move actions; rng and twin stay as they are.
Init ==
    /\ driver \in {"interactive", "simulation"}
    /\ Start
    /\ twin = None
    /\ doc = None
    /\ adven2 = None

Next ==
    \/ LoopLog \/ LoopQuit \/ LoopInventory \/ LoopSearch \/ LoopLook
    \/ LoopScore \/ LoopEat \/ LoopTalk \/ LoopInteraction \/ LoopMove
    \/ LoopInvalid \/ LoopCheckWin \/ LoopAddEvent
    \/ SimLog \/ SimQuit \/ SimLook \/ SimSearch \/ SimInventory
    \/ SimScore \/ SimTalk \/ SimInteraction \/ SimMove
    \/ SimRaise \/ SimAddEvent

Spec == Init /\ [][Next]_vars

(***************************************************************************)
(* Two simulation sessions constructed one after the other on the same     *)
(* game data and the same commands, each with a seed, both drawing from    *)
(* the one generator of the random module.                                 *)
(***************************************************************************)
\* A variant of seed that leaves the generator where the draws so far put it.
seed_not_reset(r, a) == [r EXCEPT !.seeded = Append(@, a)]

\* random.seed(a): the generator starts the stream of a from its beginning.
seed(r, a) == [r EXCEPT !.seeded = Append(@, a), !.calls = 0]

\* The stream the generator is on.
stream(r) == r.streams[r.seeded[Len(r.seeded)]]

\* The value of the next random.randint: the seed fixes the stream, whose
\* values are chosen (fresh) the first time a session reaches them.
randint(r, fresh) ==
    IF r.calls < Len(stream(r)) THEN stream(r)[r.calls + 1] ELSE fresh

\* The generator after random.randint returned value.
drawn(r, value) ==
    [r EXCEPT !.calls = @ + 1,
              !.streams[r.seeded[Len(r.seeded)]] =
                  IF r.calls < Len(@) THEN @ ELSE Append(@, value)]

\* A session as AdventureGameSimulation.__init__ leaves it before its loop;
\* at counts the commands of the list it has executed.
NewSession ==
    [game |-> NewGame,
     log  |-> add_event(NewEventList, InitialLocationId, None),
     pc   |-> "prompt",
     at   |-> 0]

\* The first session, which is the state's own variables.
Session == [game |-> Game, log |-> Log, pc |-> pc, at |-> Len(issued)]

\* A command draws from the generator iff it is executed as a move.
draws(s, command) ==
    sim_valid(s.game, command) /\ sim_branch(s.game, command) = "move"

\* _execute_command(command) in session s.
sim_command(s, command, base_cost) ==
    IF ~sim_valid(s.game, command)
        THEN [s EXCEPT !.pc = "raised"]
        ELSE [s EXCEPT !.game = execute_command(s.game, command, base_cost),
                       !.at = @ + 1,
                       !.pc = "add_event"]

\* self._events.add_event(Event(current.id_num, ..), command) in session s.
sim_add_event(s, command) ==
    [s EXCEPT !.log = add_event(s.log, s.game.current_location_id, command),
              !.pc = "prompt"]

\* The first session is constructed: random.seed(seed), the game and the log.
DetFirst ==
    /\ rng.seeded = <<>>
    /\ \E a \in Seeds : rng' = seed(rng, a)
    /\ UNCHANGED <<gamevars, logvars, driver, pc, choice, issued, twin, loadvars, adven2>>

\* The first session executes the next command of its list.
DetTurn ==
    /\ Len(rng.seeded) = 1 /\ pc = "prompt"
    /\ Len(issued) < MaxCommands
    /\ \E command \in CommandInputs :
        \E fresh \in (IF draws(Session, command) THEN BaseCosts ELSE {0}) :
         LET base_cost == randint(rng, fresh)
             s1 == sim_command(Session, command, base_cost)
         IN  /\ SetGame(s1.game)
             /\ pc' = s1.pc
             /\ rng' = IF draws(Session, command) THEN drawn(rng, base_cost) ELSE rng
             /\ choice' = IF s1.pc = "raised" THEN choice ELSE command
             /\ issued' = IF s1.pc = "raised" THEN issued ELSE Append(issued, command)
    /\ UNCHANGED <<logvars, driver, twin, loadvars, adven2>>

\* The first session logs the command it executed.
DetAddEvent ==
    /\ pc = "add_event"
    /\ SetLog(sim_add_event(Session, choice).log)
    /\ pc' = sim_add_event(Session, choice).pc
    /\ UNCHANGED <<gamevars, driver, choice, issued, rng, twin, loadvars, adven2>>

\* The first session's list being executed, the second session is
\* constructed on the same list: random.seed(seed), the game and the log.
DetSecond ==
    /\ Len(rng.seeded) = 1 /\ pc = "prompt" /\ issued # <<>>
    /\ \E a \in Seeds : rng' = seed(rng, a)
    /\ twin' = NewSession
    /\ UNCHANGED <<gamevars, logvars, driver, pc, choice, issued, loadvars, adven2>>

\* The second session executes the next command of the list.
DetTwinTurn ==
    /\ twin.pc = "prompt" /\ twin.at < Len(issued)
    /\ LET command == issued[twin.at + 1]
       IN  \E fresh \in (IF draws(twin, command) THEN BaseCosts ELSE {0}) :
             LET base_cost == randint(rng, fresh)
             IN  /\ twin' = sim_command(twin, command, base_cost)
                 /\ rng' = IF draws(twin, command) THEN drawn(rng, base_cost) ELSE rng
    /\ UNCHANGED <<gamevars, logvars, driver, pc, choice, issued, loadvars, adven2>>

\* The second session logs the command it executed.
DetTwinAddEvent ==
    /\ twin.pc = "add_event"
    /\ twin' = sim_add_event(twin, issued[twin.at])
    /\ UNCHANGED <<gamevars, logvars, driver, pc, choice, issued, rng, loadvars, adven2>>

DetInit ==
    /\ driver = "simulation"
    /\ Start
    /\ twin = [NewSession EXCEPT !.pc = "unbuilt"]  \* not constructed yet
    /\ doc = None
    /\ adven2 = None

DetNext ==
    \/ DetFirst \/ DetTurn \/ DetAddEvent
    \/ DetSecond \/ DetTwinTurn \/ DetTwinAddEvent

SpecDet == DetInit /\ [][DetNext]_vars

(***************************************************************************)
(* The loader, AdventureGame._load_game_data, on small documents.          *)
(***************************************************************************)
\* The item names a document may define or refer to, the location ids it
\* defines and the destination ids its commands may name.
DocItemNames == {"Lucky Mug", "Ghost Item"}
DocLocationIds == {0, 1}
DocDestinationIds == {0, 1, 2}

\* json.load(f): documents of two locations with one movement command each.
Documents ==
    [items : SUBSET {"Lucky Mug"},
     locations : [DocLocationIds ->
                    [items : {<<>>} \cup {<<n>> : n \in DocItemNames},
                     available_commands : [{"go"} -> DocDestinationIds]]]]

\* The loader has not run.
NotLoaded == [raised |-> None, returned |-> FALSE]

\* _load_game_data(filename), the file holding data: KeyError when a
\* location's item list names an item data["items"] does not define,
\* otherwise the locations and items as built.
load_game_data(data) ==
    IF \E id \in DOMAIN data.locations :
          \E i \in 1..Len(data.locations[id].items) :
             data.locations[id].items[i] \notin data.items
        THEN [raised |-> "KeyError", returned |-> FALSE]
        ELSE [raised |-> None, returned |-> TRUE,
              locations |-> [id \in DOMAIN data.locations |->
                               [id_num |-> id,
                                available_commands |-> data.locations[id].available_commands,
                                items |-> data.locations[id].items]],
              items |-> data.items]

\* AdventureGame.__init__ calls the loader on the document.
LoadGameData ==
    /\ loaded = NotLoaded
    /\ loaded' = load_game_data(doc)
    /\ UNCHANGED <<gamevars, logvars, driver, pc, choice, issued, rng, twin, doc, adven2>>

LoadInit ==
    /\ driver = "interactive"
    /\ Start
    /\ twin = None
    /\ doc \in Documents
    /\ adven2 = None

LoadNext == LoadGameData

SpecLoad == LoadInit /\ [][LoadNext]_vars

(***************************************************************************)
(* The AdventureGame of src/adven2.py: items are picked up, dropped and    *)
(* used one at a time, the inventory is a list of Item objects.            *)
(***************************************************************************)
\* data["items"] of its game data, in file order (the order of the _items
\* dict), and each item's data (_item_meta).
A2ItemNames == <<"Key", "Vault Card", "Lamp">>

A2ItemMeta ==
    [name \in Range(A2ItemNames) |->
        CASE name = "Key" ->
                [use_effects |-> << [type |-> "set_flag", flag |-> "vault_open",
                                     value |-> TRUE] >>]
          [] name = "Vault Card" ->
                [pickup_requires_flags |-> [vault_open |-> TRUE]]
          [] name = "Lamp" ->
                [pickup_requires_flags |-> [vault_open |-> TRUE, lamp_broken |-> FALSE]]]

\* data["initial_flags"]: "lamp_broken" is not among them.
A2InitialFlags == [f \in {"vault_open"} |-> FALSE]

\* data["locations"]: the movement commands and the item names lying there,
\* one of them spelled in lower case.
A2LocationIds == {0, 1}

A2AvailableCommands ==
    [id \in A2LocationIds |->
        IF id = 0 THEN [c \in {"go"} |-> 1] ELSE [c \in {"back"} |-> 0]]

A2StartItems ==
    [id \in A2LocationIds |->
        IF id = 0 THEN <<"Key", "Lamp", "Key">> ELSE <<"vault card">>]

\* data["location_actions"]
A2LocationActions ==
    << [command |-> "lock vault", locations |-> <<1>>,
        effects |-> << [type |-> "set_flag", flag |-> "vault_open", value |-> FALSE] >>] >>

\* The names a player may give to try_pickup, try_drop and try_use.
RawNames == {"key", "KEY", " vault card ", "lamp", "ghost"}

\* raw.strip().lower(), on the names of this world and on the names given.
strip_lower(raw) ==
    CASE raw \in {"key", "KEY", "Key"} -> "key"
      [] raw \in {" vault card ", "vault card", "Vault Card"} -> "vault card"
      [] raw \in {"lamp", "Lamp"} -> "lamp"
      [] OTHER -> raw

\* AdventureGame.__init__ of adven2: returned and call tell what the last
\* method called was given and what it returned.
NewAdven2 ==
    [current_location_id |-> 0,
     ongoing             |-> TRUE,
     inventory           |-> <<>>,
     flags               |-> A2InitialFlags,
     items               |-> A2StartItems,
     call                |-> [method |-> "__init__", arg |-> ""],
     returned            |-> FALSE]

\* _resolve_item_name(raw_name): the first name of _items that equals the
\* given one but for case, or None.
RECURSIVE resolve_from(_, _)
resolve_from(target, i) ==
    IF i > Len(A2ItemNames) THEN None
    ELSE IF strip_lower(A2ItemNames[i]) = target THEN A2ItemNames[i]
    ELSE resolve_from(target, i + 1)

resolve_item_name(raw_name) == resolve_from(strip_lower(raw_name), 1)

\* _has_item(item_name)
has_item(g, item_name) == \E i \in 1..Len(g.inventory) : g.inventory[i] = item_name

\* list.remove(x), list.pop(i): the list without its i-th element.
Pop(s, i) == SubSeq(s, 1, i - 1) \o SubSeq(s, i + 1, Len(s))

\* The index of the first element of s that satisfies hit, 0 if there is none.
FirstIndex(s, hit) ==
    IF \E i \in 1..Len(s) : s[i] \in hit
        THEN CHOOSE i \in 1..Len(s) : s[i] \in hit /\ \A j \in 1..(i - 1) : s[j] \notin hit
        ELSE 0

\* _apply_effects(effects) of adven2: messages and flags.
RECURSIVE a2_apply_effects_from(_, _, _)
a2_apply_effects_from(g, effects, i) ==
    IF i > Len(effects) THEN g
    ELSE LET effect == effects[i]
             g1 == IF Get(effect, "type", None) = "set_flag"
                       THEN [g EXCEPT !.flags =
                                IF effect.flag \in DOMAIN @
                                    THEN [@ EXCEPT ![effect.flag] = effect.value]
                                    ELSE @ @@ (effect.flag :> effect.value)]
                       ELSE g
         IN  a2_apply_effects_from(g1, effects, i + 1)

a2_apply_effects(g, effects) == a2_apply_effects_from(g, effects, 1)

\* The call of method with arg returned value, leaving the game as g.
Returned(g, method, arg, value) ==
    [g EXCEPT !.call = [method |-> method, arg |-> arg], !.returned = value]

\* The location items that equal the canonical name but for case.
SpelledLike(canonical) == {n \in {"Key", "Vault Card", "vault card", "Lamp"} :
                                strip_lower(n) = strip_lower(canonical)}

\* A variant of try_pickup that does not look at pickup_requires_flags.
try_pickup_unchecked(g, raw_item_name) ==
    LET canonical == resolve_item_name(raw_item_name)
        here == g.items[g.current_location_id]
        match == IF canonical = None THEN 0 ELSE FirstIndex(here, SpelledLike(canonical))
    IN  IF canonical = None \/ match = 0
            THEN Returned(g, "try_pickup", raw_item_name, FALSE)
            ELSE Returned([g EXCEPT !.items[g.current_location_id] = Pop(@, match),
                                    !.inventory = IF has_item(g, canonical) THEN @
                                                  ELSE Append(@, canonical)],
                          "try_pickup", raw_item_name, TRUE)

\* try_pickup(raw_item_name)
try_pickup(g, raw_item_name) ==
    LET canonical == resolve_item_name(raw_item_name)
        here == g.items[g.current_location_id]
        match == IF canonical = None THEN 0 ELSE FirstIndex(here, SpelledLike(canonical))
        req_flags == Get(A2ItemMeta[canonical], "pickup_requires_flags", EmptyDict)
    IN  IF canonical = None
            THEN Returned(g, "try_pickup", raw_item_name, FALSE)
        ELSE IF match = 0
            THEN Returned(g, "try_pickup", raw_item_name, FALSE)
        ELSE IF \E flag \in DOMAIN req_flags : flag_differs(g.flags, flag, req_flags[flag])
            THEN Returned(g, "try_pickup", raw_item_name, FALSE)
        ELSE Returned([g EXCEPT !.items[g.current_location_id] = Pop(@, match),
                                !.inventory = IF has_item(g, canonical) THEN @
                                              ELSE Append(@, canonical)],
                      "try_pickup", raw_item_name, TRUE)

\* try_drop(raw_item_name)
try_drop(g, raw_item_name) ==
    LET canonical == resolve_item_name(raw_item_name)
        held == IF canonical = None THEN 0 ELSE FirstIndex(g.inventory, {canonical})
    IN  IF canonical = None \/ held = 0
            THEN Returned(g, "try_drop", raw_item_name, FALSE)
            ELSE Returned([g EXCEPT !.inventory = Pop(@, held),
                                    !.items[g.current_location_id] = Append(@, canonical)],
                          "try_drop", raw_item_name, TRUE)

\* try_use(raw_item_name)
try_use(g, raw_item_name) ==
    LET canonical == resolve_item_name(raw_item_name)
    IN  IF canonical = None
            THEN Returned(g, "try_use", raw_item_name, FALSE)
        ELSE IF ~has_item(g, canonical)
            THEN Returned(g, "try_use", raw_item_name, FALSE)
        ELSE Returned(a2_apply_effects(g, Get(A2ItemMeta[canonical], "use_effects", <<>>)),
                      "try_use", raw_item_name, TRUE)

\* _try_location_action(command): the first action of that command that is
\* authored for the current location.
try_location_action(g, command) ==
    LET rules == {i \in 1..Len(A2LocationActions) :
                    /\ A2LocationActions[i].command = command
                    /\ g.current_location_id \in Range(A2LocationActions[i].locations)}
    IN  IF rules = {} THEN Returned(g, "_try_location_action", command, FALSE)
        ELSE Returned(a2_apply_effects(g, A2LocationActions[
                                             CHOOSE i \in rules : \A j \in rules : i <= j].effects),
                      "_try_location_action", command, TRUE)

\* The loop of adven2's __main__: a movement command of the location.
A2Move ==
    /\ \E command \in DOMAIN A2AvailableCommands[adven2.current_location_id] :
         adven2' = [adven2 EXCEPT
                      !.current_location_id = A2AvailableCommands[@][command],
                      !.call = [method |-> "move", arg |-> command]]
    /\ UNCHANGED <<gamevars, logvars, driver, pc, choice, issued, rng, twin, loadvars>>

\* "pick up <name>" and "pickup <name>"
A2Pickup ==
    /\ \E raw \in RawNames : adven2' = try_pickup(adven2, raw)
    /\ UNCHANGED <<gamevars, logvars, driver, pc, choice, issued, rng, twin, loadvars>>

\* "drop <name>"
A2Drop ==
    /\ \E raw \in RawNames : adven2' = try_drop(adven2, raw)
    /\ UNCHANGED <<gamevars, logvars, driver, pc, choice, issued, rng, twin, loadvars>>

\* "use <name>"
A2Use ==
    /\ \E raw \in RawNames : adven2' = try_use(adven2, raw)
    /\ UNCHANGED <<gamevars, logvars, driver, pc, choice, issued, rng, twin, loadvars>>

\* Any other command: the data-driven actions of the location.
A2LocationAction ==
    /\ \E command \in {"lock vault"} : adven2' = try_location_action(adven2, command)
    /\ UNCHANGED <<gamevars, logvars, driver, pc, choice, issued, rng, twin, loadvars>>

PickupInit ==
    /\ driver = "interactive"
    /\ Start
    /\ twin = None
    /\ doc = None
    /\ adven2 = NewAdven2

PickupNext == A2Move \/ A2Pickup \/ A2Drop \/ A2Use \/ A2LocationAction

SpecPickup == PickupInit /\ [][PickupNext]_vars

(***************************************************************************)
(* The EventList on its own: add_event with fresh events and               *)
(* remove_last_event, called in any order on the list a driver set up.     *)
(***************************************************************************)
\* The commands passed to add_event (None is the parameter's default).
LogCommands == {None, "exit", "search"}

\* add_event(Event(id_num, ..), command) with a new Event object.
LogAddEvent ==
    /\ Len(events) < MaxEvents
    /\ \E id_num \in LocationIds, command \in LogCommands :
        /\ SetLog(add_event(Log, id_num, command))
        /\ choice' = command
    /\ UNCHANGED <<gamevars, driver, pc, issued, detvars>>

\* remove_last_event()
LogRemoveLastEvent ==
    /\ SetLog(remove_last_event(Log))
    /\ UNCHANGED <<gamevars, driver, pc, choice, issued, detvars>>

LogInit ==
    /\ driver = "interactive"
    /\ Start
    /\ twin = None
    /\ doc = None
    /\ adven2 = None

LogNext == LogAddEvent \/ LogRemoveLastEvent

SpecLog == LogInit /\ [][LogNext]_vars

(***************************************************************************)
(* A player who prepares at the starting location and then keeps moving,   *)
(* the game configured with a timer range whose lower bound is 1.          *)
(***************************************************************************)
\* settings["movement_costs"]["timer_range"] of this configuration, and the
\* values random.randint(low, high) can return for it.
LowTimerRange == <<1, 1>>
LowCosts == LowTimerRange[1]..LowTimerRange[2]

\* What the player does before setting off.
Preparations == {"search", "eat energy drink"}

\* One pass of the interactive loop on a command typed before the first move:
\* "search" runs search_location, "eat <item>" runs consume_item on the rest
\* of the command, check_win follows, and the pass ends with game_log.add_event
\* of the resulting location and the command. The guards moves_made = 0 and
\* Len(issued) < MaxPreparations are the scenario's (the player prepares, then
\* sets off), not the loop's.
Prepare ==
    /\ ongoing /\ moves_made = 0 /\ Len(issued) < MaxPreparations
    /\ \E command \in Preparations :
         LET after == check_win(
                 IF command = "search" THEN search_location(Game)
                 ELSE consume_item(Game, strip_prefix(command, "eat ")))
         IN  /\ SetGame(after)
             /\ SetLog(add_event(Log, after.current_location_id, command))
             /\ choice' = command
             /\ issued' = Append(issued, command)
    /\ UNCHANGED <<driver, pc, detvars>>

\* One pass of the interactive loop on a movement command of the current
\* location, random.randint returning base_cost: move, check_win, and
\* game_log.add_event of the resulting location and the command. The guard
\* moves_made < MaxMoves is the bound of the model, not the loop's: the loop
\* runs as long as the game is ongoing.
KeepMoving ==
    /\ ongoing /\ moves_made < MaxMoves
    /\ \E command \in DOMAIN available_commands[current_location_id],
          base_cost \in LowCosts :
         LET after == check_win(move(Game, command, base_cost))
         IN  /\ SetGame(after)
             /\ SetLog(add_event(Log, after.current_location_id, command))
             /\ choice' = command
             /\ issued' = Append(issued, command)
    /\ UNCHANGED <<driver, pc, detvars>>

MovingInit ==
    /\ driver = "interactive"
    /\ Start
    /\ twin = None
    /\ doc = None
    /\ adven2 = None

MovingNext == Prepare \/ KeepMoving

\* The player never stops issuing movement commands while the loop runs.
SpecMoving == MovingInit /\ [][MovingNext]_vars /\ WF_vars(KeepMoving)

(***************************************************************************)
(* Claims.                                                                 *)
(***************************************************************************)
\* The number of times x occurs in the sequence s.
Count(s, x) == Cardinality({i \in 1..Len(s) : s[i] = x})

\* The number of printed lines with the given text.
Printed(text) == Cardinality({i \in 1..Len(out) : out[i].text = text})

RECURSIVE Sum(_, _, _)
Sum(s, F(_), i) == IF i > Len(s) THEN 0 ELSE F(s[i]) + Sum(s, F, i + 1)

\* A driver step that reads and executes a command.
CommandStep == pc = "prompt" /\ pc' # "prompt" /\ issued' # issued

\* C1. Inventory count invariant: every inventory entry has a count of at
\* least 1 (a key is present only while its count is positive).
C1_InventoryCounts ==
    \A key \in DOMAIN inventory : inventory[key].count >= 1

\* C2. Timer floor invariant: movement_timer and health_bar are never
\* negative.
C2_TimerFloor ==
    movement_timer >= 0 /\ health_bar >= 0

\* C3. Idempotent spawn: a command other than the inventory menu (whose drop
\* puts an item down) never adds an item to a location that already holds an
\* item of that name: spawn_item_here on such a location changes nothing.
C3_IdempotentSpawn ==
    [][(CommandStep /\ choice' # "inventory")
         => \A loc \in LocationIds, name \in DOMAIN Items :
              Count(items[loc], name) >= 1
                => Count(items'[loc], name) <= Count(items[loc], name)]_vars

\* C4. Loss: the timer is never negative; a move whose time cost is at least
\* the remaining time leaves the timer at exactly 0 and ongoing false in that
\* same move; after a move, a timer of 0 implies that ongoing is false.
C4_LossAtZero ==
    /\ [](movement_timer >= 0)
    /\ []((moves_made > 0 /\ movement_timer = 0) => ~ongoing)
    /\ [][(CommandStep /\ moves_made' = moves_made + 1)
            => /\ out'[Len(out) + 1].text = "Time Passed"
               /\ out'[Len(out) + 1].n >= movement_timer
                    => (movement_timer' = 0 /\ ~ongoing')]_vars

\* The time costs printed so far add up to more than the starting time: some
\* move cost more than the time that remained.
C4_Witness ==
    LET Cost(line) == IF line.text = "Time Passed" THEN line.n ELSE 0
    IN  /\ moves_made > 0 /\ movement_timer = 0 /\ ~ongoing
        /\ Printed("GAME OVER.") >= 1
        /\ Sum(out, Cost, 1) > NewGame.movement_timer

\* The points of the items an effect list puts into the inventory.
EffectPoints(effects) ==
    LET Points(effect) == IF effect.type = "add_item_to_inventory"
                              THEN Items[effect.item].target_points ELSE 0
    IN  Sum(effects, Points, 1)

\* The point values of the units an effect list puts into the inventory:
\* each add_item_to_inventory effect's count times the item's target_points.
UnitPoints(effects) ==
    LET Points(effect) == IF effect.type = "add_item_to_inventory"
                              THEN Get(effect, "count", 1) * Items[effect.item].target_points
                              ELSE 0
    IN  Sum(effects, Points, 1)

\* The point values of the items collected, from the printed lines o: each
\* item a search picked up ("Points gained"), and the units handed over with
\* each dialogue line said (the only effect lists of this world that add
\* items).
CollectedPoints(o) ==
    LET SaidPoints(text) ==
            LET OfLine(line) == IF line.say = text THEN UnitPoints(line.effects) ELSE 0
                OfNpc(npc) == Sum(npc.dialogue, OfLine, 1)
            IN  Sum(Npcs, OfNpc, 1)
        Points(line) == IF line.text = "Points gained" THEN line.n
                        ELSE SaidPoints(line.text)
    IN  Sum(o, Points, 1)

\* The time bonus check_win has printed in the lines o (0 before a win).
TimeBonus(o) ==
    LET Bonus(line) == IF line.text = "Time Bonus" THEN line.n ELSE 0
    IN  Sum(o, Bonus, 1)

\* The game after one more pass of the interactive loop on the movement
\* command, random.randint returning base_cost, up to check_win.
Moved(command, base_cost) == check_win(move(Game, command, base_cost))

\* The game g has been won.
Won(g) == \E i \in 1..Len(g.out) : g.out[i].text = "YOU WIN!"

\* C5. Win effect: when check_win runs at the win location with every
\* required item held, ongoing becomes false and score grows by exactly the
\* remaining movement_timer, nothing else of the game changing; otherwise
\* check_win changes nothing. The final score of a won game, reached or one
\* movement command away, is the sum of the collected items' point values
\* plus the time bonus.
C5_WinEffect ==
    /\ [][(pc = "check_win" /\ pc' # "check_win")
            => IF current_location_id = WinLocationId
                  /\ \A i \in 1..Len(required_items) : required_items[i] \in DOMAIN inventory
                 THEN /\ ~ongoing'
                      /\ score' = score + movement_timer
                      /\ UNCHANGED <<current_location_id, inventory, moves_made, health_bar,
                                     movement_timer, energized, flags, items>>
                 ELSE UNCHANGED gamevars]_vars
    /\ [](Won(Game) => score = CollectedPoints(out) + TimeBonus(out))
    /\ [](\A command \in DOMAIN available_commands[current_location_id],
             base_cost \in BaseCosts :
            (driver = "interactive" /\ pc = "prompt" /\ ongoing
               /\ Won(Moved(command, base_cost)))
              => Moved(command, base_cost).score
                   = CollectedPoints(Moved(command, base_cost).out)
                       + TimeBonus(Moved(command, base_cost).out))

\* C6. The win check has run after every executed command, in either driver:
\* a driver that stands at its prompt again after a command never has the
\* player at the win location holding every required item with ongoing still
\* true.
C6_WinCheckedAfterEveryCommand ==
    (pc = "prompt" /\ issued # <<>>)
        => ~(has_all(Game) /\ current_location_id = WinLocationId /\ ongoing)

\* C7. Log pairing: between commands the log holds one event more than the
\* commands executed, each event but the last carries the command that
\* produced the next event, and the last carries None; every add_event
\* appends the id of the location the command ended at.
C7_LogPairing ==
    /\ [](pc \in {"prompt", "raised"}
            => /\ Len(get_id_log(Log)) = Len(issued) + 1
               /\ display_events(Log) = Append(issued, None))
    /\ [][(pc = "add_event" /\ pc' # "add_event")
            => get_id_log(Log)' = Append(get_id_log(Log), current_location_id)]_vars

\* Three commands, one of which does not change the location.
C7_Witness ==
    /\ pc = "prompt"
    /\ issued = <<"exit", "search", "go home">>
    /\ get_id_log(Log) = <<0, 1, 1, 0>>
    /\ events[first].next_command = "exit"
    /\ events[last].next_command = None

\* The number of sweeps, among the n made so far (one per move, moves_made
\* being 1, 2, .., n), that found moves_made at or above the threshold of rule.
SweepsAtOrAbove(rule, n) == Max0(n - Get(rule.when, "moves_at_least", 0) + 1)

\* C8. Rule re-firing: the rule whose effects set the flag its own "when"
\* excludes (the food cart) has fired exactly once as soon as a sweep found
\* its threshold met, however many sweeps followed; the rule without such a
\* guard (the clock) has fired on every sweep that found its threshold met.
C8_RuleRefiring ==
    /\ Printed("A food cart rolls in.") = (IF SweepsAtOrAbove(Rules[1], moves_made) >= 1 THEN 1 ELSE 0)
    /\ Printed("The clock ticks.") = SweepsAtOrAbove(Rules[2], moves_made)

C8_Witness ==
    /\ moves_made = 3
    /\ Printed("A food cart rolls in.") = 1
    /\ Printed("The clock ticks.") = 2
    /\ flags["cart_arrived"]

\* The flag names a requirement may list: two the store holds from the start
\* and that change, and one it holds only once an interaction has set it.
ReqFlagNames == {"wrap_given", "cart_arrived", "locker_open"}
\* The requirement dicts tried: {}, {"flags": m} for every map m of some of
\* these flags to booleans, and the same beside a "moves_at_least" key.
ReqFlagMaps == UNION {[names -> BOOLEAN] : names \in SUBSET ReqFlagNames}
Requirements ==
    {EmptyDict} \cup {[flags |-> m] : m \in ReqFlagMaps}
                \cup {[moves_at_least |-> 1, flags |-> m] : m \in ReqFlagMaps}
                \cup {[moves_at_least |-> 1]}

\* C10. requirements_met(req) is true iff every flag req lists is in the flag
\* store with exactly the expected boolean (an absent flag fails it); an empty
\* requirement, or one listing no flags, is met.
C10_RequirementsMet ==
    \A req \in Requirements :
        requirements_met(Game, req)
            <=> \A flag \in DOMAIN Get(req, "flags", EmptyDict) :
                    flag \in DOMAIN flags /\ flags[flag] = req.flags[flag]

\* After a dialogue chosen by requirements_met: a stored flag passes, a flag
\* that is still absent fails even when False is expected.
C10_Witness ==
    /\ choice = "talk reuben" /\ flags["wrap_given"]
    /\ "locker_open" \notin DOMAIN flags
    /\ requirements_met(Game, [flags |-> [wrap_given |-> TRUE]])
    /\ ~requirements_met(Game, [flags |-> [locker_open |-> FALSE]])
    /\ ~requirements_met(Game, [flags |-> [wrap_given |-> TRUE, cart_arrived |-> FALSE]])
    /\ requirements_met(Game, [moves_at_least |-> 1])

\* The sequence s begins the sequence t.
IsPrefix(s, t) == Len(s) <= Len(t) /\ \A i \in 1..Len(s) : s[i] = t[i]

Held(inv, name) == IF lower(name) \in DOMAIN inv THEN inv[lower(name)].count ELSE 0

RECURSIVE PointsOfUnits(_, _, _)
\* The points of the units by which inventory after exceeds inventory before,
\* over the item names in names: units times target_points.
PointsOfUnits(before, after, names) ==
    IF names = {} THEN 0
    ELSE LET name == CHOOSE n \in names : TRUE
         IN  (Held(after, name) - Held(before, name)) * Items[name].target_points
                + PointsOfUnits(before, after, names \ {name})

\* C11. add_item_to_inventory raises score by the item's target points once
\* per unit added: a talk (the command whose effects hand items over) raises
\* score by count * target_points for the units it adds to the inventory.
C11_PointsPerUnit ==
    [][(CommandStep /\ startswith(choice', "talk "))
         => score' - score = PointsOfUnits(inventory, inventory', DOMAIN Items)]_vars

\* The interactions of the current location whose requirement is unmet.
NotReadyHere ==
    {i \in 1..Len(Interactions) :
        /\ current_location_id \in Range(Get(Interactions[i], "locations", <<>>))
        /\ ~requirements_met(Game, Get(Interactions[i], "requires", EmptyDict))}

\* C12. Not-ready interaction: at the prompt, the command of an interaction of
\* the current location whose requirement is unmet is accepted by the driver
\* (it passes the validation that rejects invalid commands), so that it can
\* be answered "not yet possible" and logged.
C12_NotReadyAccepted ==
    pc = "prompt"
        => \A i \in NotReadyHere :
              IF driver = "interactive"
                  THEN Interactions[i].command \in all_actions(Game)
                  ELSE sim_valid(Game, Interactions[i].command)

\* The NPCs of that name whose home is the current location.
NpcsHere(name) ==
    {i \in 1..Len(Npcs) : Npcs[i].location = current_location_id /\ Npcs[i].name = name}

\* The dialogue lines of npc whose requirement the current flags satisfy.
SatisfiedLines(npc) ==
    {k \in 1..Len(npc.dialogue) :
        requirements_met(Game, Get(npc.dialogue[k], "requires", EmptyDict))}

\* The flag store after exactly the set_flag effects of one effect list.
FlagsSetBy(effects) ==
    LET sets == {k \in 1..Len(effects) : effects[k].type = "set_flag"}
        names == {effects[k].flag : k \in sets}
    IN  [f \in DOMAIN flags \cup names |->
            IF f \in names
                THEN effects[CHOOSE k \in sets : effects[k].flag = f].value
                ELSE flags[f]]

\* The units of the named item that one effect list hands over.
UnitsGivenBy(effects, name) ==
    LET Units(effect) == IF effect.type = "add_item_to_inventory" /\ effect.item = name
                             THEN Get(effect, "count", 1) ELSE 0
    IN  Sum(effects, Units, 1)

\* C13. run_talk with an NPC of that name at the current location and some
\* dialogue line satisfied executes exactly one line, the first satisfied one
\* in authored order: its text is the one line printed, and the flags, the
\* inventory and the score change by that line's effects and by no other
\* line's, also when a later line is satisfied too or becomes so.
C13_FirstSatisfiedLine ==
    [][(CommandStep /\ startswith(choice', "talk ")
            /\ NpcsHere(strip_prefix(choice', "talk ")) # {})
         => LET npc == Npcs[CHOOSE i \in NpcsHere(strip_prefix(choice', "talk ")) :
                              \A j \in NpcsHere(strip_prefix(choice', "talk ")) : i <= j]
                sat == SatisfiedLines(npc)
            IN  sat # {}
                  => LET line == npc.dialogue[CHOOSE k \in sat : \A l \in sat : k <= l]
                     IN  /\ out' = Append(out, Line(line.say, 0))
                         /\ flags' = FlagsSetBy(line.effects)
                         /\ \A name \in DOMAIN Items :
                              Held(inventory', name)
                                = Held(inventory, name) + UnitsGivenBy(line.effects, name)
                         /\ score' = score + EffectPoints(line.effects)
                         /\ UNCHANGED <<current_location_id, moves_made, movement_timer,
                                        health_bar, energized, items, ongoing>>]_vars

\* The first line was said to the player although the third was satisfied
\* too, and the second, which the first line's effects satisfied, did not run.
C13_Witness ==
    /\ choice = "talk reuben" /\ issued = <<"exit", "talk reuben">>
    /\ out[Len(out)].text = "Take this wrap."
    /\ flags["wrap_given"] /\ ~flags["thanked"]
    /\ requirements_met(Game, Npcs[1].dialogue[2].requires)
    /\ Held(inventory, "Shawarma Wrap") = 2
    /\ Held(inventory, "Energy Drink") = 0

\* C14. run_talk reports "no one by that name is here" only when no NPC of
\* that name is at the current location: with the NPC there and no dialogue
\* line satisfied, the answer is another one (the fallback).
C14_FailureOnlyWithoutNpc ==
    [][(CommandStep /\ startswith(choice', "talk ")
            /\ Len(out') > Len(out)
            /\ out'[Len(out')].text = "No one by that name is here.")
         => NpcsHere(strip_prefix(choice', "talk ")) = {}]_vars

\* The command is that of an interaction authored for the current location.
InteractionHere(command) ==
    \E i \in 1..Len(Interactions) :
        /\ current_location_id \in Range(Get(Interactions[i], "locations", <<>>))
        /\ Interactions[i].command = command

\* C15. Classification precedence: an executed command is handled by the
\* first class it matches, in the order menu command (the player neither
\* moves nor uses a move), talk prefix (run_talk), interaction of the current
\* location (run_interaction), movement command (move).
C15_ClassificationOrder ==
    [][CommandStep
         => IF choice' \in Range(Menu)
                THEN UNCHANGED <<current_location_id, moves_made>>
            ELSE IF startswith(choice', "talk ")
                THEN Game' = run_talk(Game, strip_prefix(choice', "talk "))
            ELSE IF InteractionHere(choice')
                THEN Game' = run_interaction(Game, choice')
            ELSE \E base_cost \in BaseCosts : Game' = move(Game, choice', base_cost)]_vars

\* The messages the rules' effects print.
RuleMessages ==
    UNION {{Rules[i].then[k].message :
                k \in {k \in 1..Len(Rules[i].then) : Rules[i].then[k].type = "print"}} :
           i \in 1..Len(Rules)}

\* The rules whose threshold and requirement the current state satisfies.
SatisfiedRules ==
    {i \in 1..Len(Rules) :
        /\ moves_made >= Get(Rules[i].when, "moves_at_least", 0)
        /\ requirements_met(Game, Rules[i].when)}

\* C16. Menu commands (log, quit, inventory, score, search, look) leave
\* movement_timer, moves_made and current_location_id unchanged and do not
\* trigger the rule sweep: no rule's message is printed and no flag changes.
C16_MenuFrame ==
    [][(CommandStep /\ choice' \in Range(Menu))
         => /\ UNCHANGED <<movement_timer, moves_made, current_location_id, flags>>
            /\ \A i \in (Len(out) + 1)..Len(out') : out'[i].text \notin RuleMessages]_vars

\* A search made, after a move and a talk, while a rule was satisfied: it did
\* not fire.
C16_Witness ==
    /\ issued = <<"exit", "talk reuben", "search">> /\ choice = "search"
    /\ SatisfiedRules # {}
    /\ Printed("Reuben waves.") = 0
    /\ moves_made = 1 /\ current_location_id = 1
    /\ Held(inventory, "Lucky Mug") = 1

\* The commands known at the prompt: the menu, the current location's
\* movement keys and the special commands listed for it.
KnownCommands ==
    Range(Menu) \cup DOMAIN available_commands[current_location_id]
                \cup Range(get_special_commands(Game))

\* C17. An unknown command is rejected before dispatch: every command a
\* driver executes (and then logs) is a menu command, a listed special
\* command or a movement key of the current location.
C17_UnknownRejected ==
    [][CommandStep => choice' \in KnownCommands]_vars

\* A driver step that executes a move.
MoveStep == CommandStep /\ moves_made' = moves_made + 1

\* The texts of the lines printed by the step, in order.
NewLines == [i \in 1..(Len(out') - Len(out)) |-> out'[Len(out) + i].text]

\* C18 as claimed. On a move that drives movement_timer to zero no rule's
\* effects are applied: no rule message is printed, no flag is set and no item
\* is spawned on that turn.
C18_NoRuleOnLosingTurn ==
    [][(MoveStep /\ movement_timer' = 0)
         => /\ \A i \in DOMAIN NewLines : NewLines[i] \notin RuleMessages
            /\ UNCHANGED <<flags, items>>]_vars

\* C18 as amended. On a move that drives movement_timer to zero, ongoing is
\* set false right after the timer update, before the rule sweep (the loss
\* message follows the two timer lines and precedes every rule message), and
\* the sweep still runs on that turn: the move is counted and every rule whose
\* threshold and requirement hold then has its effects applied.
C18_LossThenSweep ==
    [][(MoveStep /\ movement_timer' = 0)
         => /\ ~ongoing'
            /\ Len(NewLines) >= 3 /\ NewLines[3] = "GAME OVER."
            /\ \A i \in DOMAIN NewLines : NewLines[i] \in RuleMessages => i > 3
            /\ \A r \in 1..Len(Rules) :
                 (/\ moves_made' >= Get(Rules[r].when, "moves_at_least", 0)
                  /\ requirements_met(Game, Rules[r].when))
                   => \A k \in 1..Len(Rules[r].then) :
                        Rules[r].then[k].type = "print"
                          => \E i \in DOMAIN NewLines : NewLines[i] = Rules[r].then[k].message]_vars

\* The game was lost on the second move and the clock rule, and the cart
\* bell rule after it, fired after the loss message, the clock rule spawning
\* its item.
C18_Witness ==
    /\ ~ongoing /\ movement_timer = 0 /\ moves_made = 2
    /\ out[Len(out) - 2].text = "GAME OVER."
    /\ out[Len(out) - 1].text = "The clock ticks."
    /\ out[Len(out)].text = "The cart bell rings."
    /\ Count(items[0], "Energy Drink") = 2

\* C19. Post-turn rule sweep: a talk or interaction that changes the flags or
\* the inventory is followed, in the same turn, by one rule sweep against the
\* updated state: every rule whose threshold and requirement hold once the
\* command is done has printed its message during the command.
C19_SweepAfterTalkOrInteraction ==
    [][(/\ CommandStep /\ ~MoveStep /\ choice' \notin Range(Menu)
        /\ (flags' # flags \/ inventory' # inventory))
         => \A r \in 1..Len(Rules) :
              (/\ moves_made' >= Get(Rules[r].when, "moves_at_least", 0)
               /\ requirements_met(Game', Rules[r].when))
                => \A k \in 1..Len(Rules[r].then) :
                     Rules[r].then[k].type = "print"
                       => \E i \in DOMAIN NewLines : NewLines[i] = Rules[r].then[k].message]_vars

\* C20. Load-time validation: a document that was loaded without an error has
\* no location whose item list names an unknown item and no movement command
\* whose destination is not one of its locations (so that no move can leave
\* the locations of the World Model).
C20_LoadValidation ==
    loaded.returned
        => \A id \in DOMAIN doc.locations :
              /\ \A i \in 1..Len(doc.locations[id].items) :
                    doc.locations[id].items[i] \in doc.items
              /\ \A command \in DOMAIN doc.locations[id].available_commands :
                    doc.locations[id].available_commands[command] \in DOMAIN doc.locations

\* The Event objects of the list, following next from curr.
RECURSIVE chain_from(_, _, _)
chain_from(L, curr, fuel) ==
    IF curr = NoEvent \/ fuel = 0 THEN <<>>
    ELSE <<curr>> \o chain_from(L, L.events[curr].next, fuel - 1)

Chain == chain_from(Log, first, Len(events))

\* C21. EventList representation invariant: after any sequence of add_event
\* (with fresh events) and remove_last_event calls, the list is either empty
\* (first and last both None) or first.prev is None, last.next is None,
\* last.next_command is None, following next from first reaches last, and
\* e.next.prev is e for every event e with a successor; get_id_log returns the
\* ids of the list's events in the order they were appended (objects are
\* numbered in the order of their creation, which is that of their appending).
C21_RepresentationInvariant ==
    /\ \/ first = NoEvent /\ last = NoEvent
       \/ /\ first # NoEvent /\ last # NoEvent
          /\ events[first].prev = NoEvent
          /\ events[last].next = NoEvent
          /\ events[last].next_command = None
          /\ Chain # <<>> /\ Chain[Len(Chain)] = last
          /\ \A i \in 1..Len(Chain) :
                events[Chain[i]].next # NoEvent
                    => events[events[Chain[i]].next].prev = Chain[i]
    /\ \A i, j \in 1..Len(Chain) : i < j => Chain[i] < Chain[j]
    /\ get_id_log(Log) = [i \in 1..Len(Chain) |-> events[Chain[i]].id_num]

\* Four events were created and two of them removed again: the list is the
\* first and the fourth, and a removed event still refers to the first.
C21_Witness ==
    /\ Len(events) = 4 /\ Chain = <<1, 4>>
    /\ events[1].next = 4 /\ events[4].prev = 1
    /\ events[2].prev = 1 /\ events[3].prev = 1
    /\ events[1].id_num # events[4].id_num
    /\ get_id_log(Log) = <<events[1].id_num, events[4].id_num>>

\* s without its last element.
Front(s) == SubSeq(s, 1, Len(s) - 1)

\* C22. remove_last_event undoes the last add_event: on an empty list it does
\* nothing; on a one-event list it yields the empty list; otherwise the
\* previous event becomes last with next and next_command None. Hence
\* add_event(e, c) followed by remove_last_event restores the id log and every
\* remaining event's next_command.
C22_RemoveUndoesAdd ==
    LET removed == remove_last_event(Log)
    IN  /\ is_empty(Log) => removed = Log
        /\ Len(Chain) = 1 => is_empty(removed)
        /\ Len(Chain) > 1
            => /\ removed.first = first
               /\ removed.last = events[last].prev
               /\ removed.events[removed.last].next = NoEvent
               /\ removed.events[removed.last].next_command = None
               /\ get_id_log(removed) = Front(get_id_log(Log))
        /\ \A id_num \in LocationIds, command \in LogCommands :
             LET undone == remove_last_event(add_event(Log, id_num, command))
             IN  /\ get_id_log(undone) = get_id_log(Log)
                 /\ display_events(undone) = display_events(Log)
                 /\ is_empty(undone) <=> is_empty(Log)

\* An event added with a command was removed again: the event before it is
\* last, without a successor and without a command.
C22_Witness ==
    /\ choice = "search" /\ Len(events) = 3
    /\ Chain = <<1, 2>> /\ last = 2
    /\ events[3].prev = 2
    /\ events[2].next = NoEvent /\ events[2].next_command = None
    /\ events[1].next_command = "exit"

\* The number of elements of the item list s spelled like the item name.
Lying(s, name) == Cardinality({i \in 1..Len(s) : strip_lower(s[i]) = strip_lower(name)})

\* C23. try_pickup of adven2 returns True iff the name resolves, but for
\* case, to a known item, that item is in the current location's item list,
\* and every flag of the item's pickup_requires_flags has its required value.
\* When it returns False the locations' items, the inventory and the flags
\* are unchanged; when it returns True one occurrence is removed from the
\* location and the inventory then contains the item.
C23_TryPickup ==
    \A raw \in RawNames :
        LET after == try_pickup(adven2, raw)
            loc == adven2.current_location_id
            known == {n \in Range(A2ItemNames) : strip_lower(n) = strip_lower(raw)}
            allowed(n) ==
                \A flag \in DOMAIN Get(A2ItemMeta[n], "pickup_requires_flags", EmptyDict) :
                    /\ flag \in DOMAIN adven2.flags
                    /\ adven2.flags[flag] = A2ItemMeta[n].pickup_requires_flags[flag]
        IN  /\ after.returned
                <=> \E n \in known : Lying(adven2.items[loc], n) >= 1 /\ allowed(n)
            /\ ~after.returned
                => /\ after.items = adven2.items
                   /\ after.inventory = adven2.inventory
                   /\ after.flags = adven2.flags
            /\ after.returned
                => \E n \in known :
                     /\ Len(after.items[loc]) = Len(adven2.items[loc]) - 1
                     /\ \A m \in Range(A2ItemNames) :
                          Lying(after.items[loc], m)
                            = Lying(adven2.items[loc], m) - (IF m = n THEN 1 ELSE 0)
                     /\ \A id \in A2LocationIds \ {loc} : after.items[id] = adven2.items[id]
                     /\ \E i \in 1..Len(after.inventory) : after.inventory[i] = n
                     /\ after.flags = adven2.flags

\* The card, whose pickup needs the vault open, was picked up where it lay in
\* lower case, the key being held already.
C23_Witness ==
    /\ adven2.call = [method |-> "try_pickup", arg |-> " vault card "]
    /\ adven2.returned
    /\ adven2.current_location_id = 1 /\ adven2.flags["vault_open"]
    /\ adven2.inventory = <<"Key", "Vault Card">>
    /\ adven2.items[1] = <<>>
    /\ Lying(adven2.items[0], "Key") = 1

\* The cost of a move when each adjustment applies whenever its condition
\* holds: halved if energized, and doubled if health_bar <= 0.
StackedCost(g, base_cost) ==
    LET halved == IF g.energized THEN base_cost \div 2 ELSE base_cost
    IN  IF g.health_bar <= 0 THEN halved * 2 ELSE halved

\* The cost of a move when the adjustments are alternatives: halved if
\* energized, otherwise doubled if health_bar <= 0.
AlternativeCost(g, base_cost) ==
    IF g.energized THEN base_cost \div 2
    ELSE IF g.health_bar <= 0 THEN base_cost * 2
    ELSE base_cost

\* C24 as claimed. Movement cost: a move draws a base cost from the timer
\* range, halves it if energized and doubles it if health_bar <= 0, each
\* adjustment applying whenever its condition holds, sets movement_timer to
\* max(0, movement_timer - cost), increments moves_made by exactly 1 and sets
\* current_location_id to the command table's destination: so does a move made
\* from any state a session reaches.
C24_StackedCost ==
    \A command \in DOMAIN available_commands[current_location_id], base_cost \in BaseCosts :
        LET after == move(Game, command, base_cost)
        IN  /\ after.movement_timer = Max0(movement_timer - StackedCost(Game, base_cost))
            /\ after.moves_made = moves_made + 1
            /\ after.current_location_id = available_commands[current_location_id][command]

\* C24 as amended. The two adjustments are alternatives, the halving first: a
\* move halves the base cost if energized, otherwise doubles it if
\* health_bar <= 0, sets movement_timer to max(0, movement_timer - cost),
\* increments moves_made by exactly 1 and sets current_location_id to the
\* command table's destination; so does every move a driver executes and a
\* move made from any state a session reaches.
C24_AlternativeCost ==
    /\ [](\A command \in DOMAIN available_commands[current_location_id],
             base_cost \in BaseCosts :
            LET after == move(Game, command, base_cost)
            IN  /\ after.movement_timer
                     = Max0(movement_timer - AlternativeCost(Game, base_cost))
                /\ after.moves_made = moves_made + 1
                /\ after.current_location_id
                     = available_commands[current_location_id][command])
    /\ [][MoveStep
            => /\ \E base_cost \in BaseCosts :
                    movement_timer' = Max0(movement_timer - AlternativeCost(Game, base_cost))
               /\ moves_made' = moves_made + 1
               /\ current_location_id' = available_commands[current_location_id][choice']]_vars

\* A move was made energized, at half the cost drawn, and has left the player
\* energized and starving at once.
C24_Witness ==
    /\ issued = <<"search", "eat energy drink", "exit">>
    /\ energized /\ health_bar <= 0
    /\ moves_made = 1 /\ current_location_id = 1
    /\ movement_timer = NewGame.movement_timer - 1

\* The flag store f after the set_flag effects of an effect list, in order.
RECURSIVE WithFlagsSet(_, _, _)
WithFlagsSet(f, effects, k) ==
    IF k > Len(effects) THEN f
    ELSE WithFlagsSet(IF effects[k].type = "set_flag"
                          THEN [n \in DOMAIN f \cup {effects[k].flag} |->
                                    IF n = effects[k].flag THEN effects[k].value ELSE f[n]]
                          ELSE f,
                      effects, k + 1)

\* Rule r is not skipped when it is visited with the flag store f after n moves.
Fires(r, f, n) ==
    /\ n >= Get(Rules[r].when, "moves_at_least", 0)
    /\ \A flag \in DOMAIN Get(Rules[r].when, "flags", EmptyDict) :
          flag \in DOMAIN f /\ f[flag] = Rules[r].when.flags[flag]

\* The flag store when rule r is visited in a sweep that starts with the flag
\* store f after n moves: every earlier rule that fired has set its flags.
RECURSIVE FlagsWhenVisited(_, _, _)
FlagsWhenVisited(r, f, n) ==
    IF r = 1 THEN f
    ELSE LET before == FlagsWhenVisited(r - 1, f, n)
         IN  IF Fires(r - 1, before, n)
                 THEN WithFlagsSet(before, Rules[r - 1].then, 1)
                 ELSE before

\* The messages of the rules from r on that fire in such a sweep, in order.
RECURSIVE SweepMessages(_, _, _)
SweepMessages(r, f, n) ==
    IF r > Len(Rules) THEN <<>>
    ELSE (IF Fires(r, FlagsWhenVisited(r, f, n), n)
              THEN LET then == Rules[r].then
                       IsPrint(effect) == effect.type = "print"
                       prints == SelectSeq(then, IsPrint)
                   IN  [k \in 1..Len(prints) |-> prints[k].message]
              ELSE <<>>)
         \o SweepMessages(r + 1, f, n)

\* C25. apply_rules visits the rules in authored order within one sweep,
\* skipping a rule iff moves_made is below its threshold or its flag
\* requirement is unmet at the moment it is visited: a later rule is evaluated
\* against the flags as changed by earlier rules of the same sweep, and every
\* satisfied rule fires. The rule messages a move prints are those of the
\* rules that fire, in authored order, and the flags after the move are those
\* the fired rules have set.
C25_RulesInAuthoredOrder ==
    [][MoveStep
         => LET IsRuleMessage(text) == text \in RuleMessages
            IN  /\ SelectSeq(NewLines, IsRuleMessage) = SweepMessages(1, flags, moves_made')
                /\ flags' = FlagsWhenVisited(Len(Rules) + 1, flags, moves_made')]_vars

\* The first sweep: the food cart rule fired and set cart_arrived, and the
\* rule that requires cart_arrived, visited later, fired in the same sweep; the
\* rule below its threshold and the rule whose flag is unset were skipped.
C25_Witness ==
    /\ issued = <<"exit">> /\ moves_made = 1
    /\ flags["cart_arrived"] /\ ~flags["wrap_given"]
    /\ out[Len(out) - 1].text = "A food cart rolls in."
    /\ out[Len(out)].text = "The cart bell rings."
    /\ Printed("The clock ticks.") = 0 /\ Printed("Reuben waves.") = 0

\* The points of the items of the list s: each occurrence's target_points.
PointsLying(s) ==
    LET Points(name) == Items[name].target_points
    IN  Sum(s, Points, 1)

\* C26. Search pickup: every item in the current location's list is
\* transferred to the inventory, raising that item's count by its number of
\* occurrences in the list and the score by each occurrence's target_points,
\* and the location's list is empty afterwards; searching an empty location
\* changes nothing (but for the message printed).
C26_SearchPickup ==
    [][(CommandStep /\ choice' = "search")
         => LET here == items[current_location_id]
            IN  /\ \A name \in DOMAIN Items :
                     Held(inventory', name) = Held(inventory, name) + Count(here, name)
                /\ score' = score + PointsLying(here)
                /\ items' = [items EXCEPT ![current_location_id] = <<>>]
                /\ UNCHANGED <<current_location_id, ongoing, moves_made, health_bar,
                               movement_timer, energized, flags>>
                /\ here = <<>> => UNCHANGED <<inventory, score, items>>]_vars

\* A search where the same item lay twice: both units were picked up and
\* both were paid for.
C26_Witness ==
    /\ issued = <<"exit", "go home", "search">> /\ pc # "prompt"
    /\ Held(inventory, "Energy Drink") = 2
    /\ score = 2 * Items["Energy Drink"].target_points
    /\ items[0] = <<>> /\ current_location_id = 0
    /\ Printed("Points gained") = 2

\* The item name whose inventory key is key.
NameOf(key) == CHOOSE name \in DOMAIN Items : lower(name) = key

\* C27. consume_item(name) on an item that is not in the inventory, or that
\* is in the inventory but not edible, leaves inventory, health_bar, energized
\* and score unchanged; on an edible held item it removes exactly one unit,
\* adds restore_value to health_bar when restore_value > 0 (clearing
\* energized), and sets energized when the special effect is "energize": so
\* does consume_item called in any state a session reaches.
C27_ConsumeItem ==
    \A key \in ItemKeys :
        LET after == consume_item(Game, key)
            item == Items[NameOf(key)]
        IN  IF key \notin DOMAIN inventory \/ ~item.edible
                THEN /\ after.inventory = inventory
                     /\ after.health_bar = health_bar
                     /\ after.energized = energized
                     /\ after.score = score
                ELSE /\ \A name \in DOMAIN Items :
                          Held(after.inventory, name)
                            = Held(inventory, name) - (IF name = item.name THEN 1 ELSE 0)
                     /\ after.health_bar
                          = health_bar + (IF item.restore_value > 0 THEN item.restore_value ELSE 0)
                     /\ after.energized
                          = (IF item.special_effect = "energize" THEN TRUE
                             ELSE IF item.restore_value > 0 THEN FALSE
                             ELSE energized)
                     /\ after.score = score

\* C28. Once ongoing has become false (loss, win or quit) the session is
\* over, in either driver: a driver that stands at its prompt with ongoing
\* false executes no further command (so that none is logged), and location,
\* inventory, flags, score, timers and moves_made stay as they are.
C28_SessionOver ==
    [][(pc = "prompt" /\ ~ongoing)
         => /\ UNCHANGED <<current_location_id, inventory, flags, score, movement_timer,
                           health_bar, moves_made, items>>
            /\ issued' = issued
            /\ pc' \notin {"check_win", "add_event"}]_vars

\* C29. Win and loss are mutually exclusive outcomes of a turn: when a move
\* has driven movement_timer to zero (ongoing is false), the win branch of
\* check_win is not taken on that turn, even at the win location with every
\* required item held: check_win leaves the game as it is.
C29_WinXorLoss ==
    [][(pc = "check_win" /\ pc' # "check_win" /\ ~ongoing /\ movement_timer = 0)
         => /\ UNCHANGED <<score, ongoing>>
            /\ out' = out]_vars

\* The units of the named item in the game g: its occurrences in all
\* locations' item lists plus its inventory count.
Units(g, name) ==
    LET Lies(loc) == Count(g.items[loc], name)
        locs == [i \in 1..Cardinality(LocationIds) |->
                    CHOOSE loc \in LocationIds :
                        Cardinality({l \in LocationIds : l < loc}) = i - 1]
    IN  Sum(locs, Lies, 1) + Held(g.inventory, name)

\* A search, and the drop of any item of the inventory, made in the current
\* state leave the units of every item as they are.
TransferredBySearchAndDrop ==
    \A name \in DOMAIN Items :
        /\ Units(search_location(Game), name) = Units(Game, name)
        /\ \A target \in DOMAIN inventory :
             Units(manage_inventory_pass(Game, current_location_id,
                                         [target |-> target, action |-> "drop"]), name)
                = Units(Game, name)

\* C30. Item units are transferred, never copied or lost, by search and drop:
\* for every item name, the occurrences in all locations' item lists plus the
\* inventory count are unchanged by search pickup and by drop, and change only
\* through spawn_item_here / add_item_to_inventory effects (an increase, in a
\* move, a talk or an interaction) and eating (a decrease by one for each item
\* eaten).
C30_UnitsTransferred ==
    /\ []TransferredBySearchAndDrop
    /\ [][\A name \in DOMAIN Items :
            /\ Units(Game', name) > Units(Game, name)
                 => CommandStep /\ choice' \notin Range(Menu)
            /\ Units(Game', name) < Units(Game, name)
                 => /\ CommandStep
                    /\ choice' = "inventory" \/ startswith(choice', "eat ")
                    /\ Units(Game', name) >= Units(Game, name) - MaxInvOps]_vars

\* The interactions of the current location with the given command whose
\* requirement is satisfied.
ReadyHere(command) ==
    {i \in 1..Len(Interactions) :
        /\ current_location_id \in Range(Get(Interactions[i], "locations", <<>>))
        /\ Interactions[i].command = command
        /\ requirements_met(Game, Get(Interactions[i], "requires", EmptyDict))}

\* C31. Interaction visibility and execution agree: whenever
\* get_special_commands lists an interaction command at the current location,
\* run_interaction on that command applies the effect list of an interaction
\* whose requirement is satisfied (it never answers "You can't do that yet."),
\* also when several interactions share the command and the location.
C31_ListedInteractionRuns ==
    \A k \in 1..Len(get_special_commands(Game)) :
        LET command == get_special_commands(Game)[k]
        IN  InteractionHere(command)
              => /\ ReadyHere(command) # {}
                 /\ \E i \in ReadyHere(command) :
                      run_interaction(Game, command)
                        = apply_effects(Game, Get(Interactions[i], "effects", <<>>))

\* C33. Pickup and drop of adven2 are inverse transfers that never lose an
\* item: the inventory never holds two entries with the same item name, and a
\* successful try_pickup(X) followed by try_drop(X) at the same location
\* restores the location's multiset of items and the inventory, also when X
\* was already held before the pickup.
C33_PickupDropInverse ==
    /\ \A i, j \in 1..Len(adven2.inventory) :
          adven2.inventory[i] = adven2.inventory[j] => i = j
    /\ \A raw \in RawNames :
          LET picked == try_pickup(adven2, raw)
              dropped == try_drop(picked, raw)
              loc == adven2.current_location_id
          IN  picked.returned
                => /\ dropped.returned
                   /\ \A m \in Range(A2ItemNames) :
                        Lying(dropped.items[loc], m) = Lying(adven2.items[loc], m)
                   /\ \A id \in A2LocationIds \ {loc} : dropped.items[id] = adven2.items[id]
                   /\ dropped.inventory = adven2.inventory

\* The game after one more move of the loop from the game g, random.randint
\* returning base_cost, on the movement command of g's location.
Onward(g, base_cost) ==
    LET command == CHOOSE c \in DOMAIN available_commands[g.current_location_id] : TRUE
    IN  check_win(move(g, command, base_cost))

\* C32. The game cannot be stalled by moving: with a timer range whose lower
\* bound is at least 1, a player who keeps issuing movement commands, in any
\* status, eventually reaches movement_timer = 0 and ongoing = FALSE. Stated
\* on the moves: every move lowers movement_timer, and no ongoing game can
\* make a move, a draw of the range's lower bound, that leaves it ongoing
\* with the same movement_timer and the same status, the next move then
\* doing the same.
C32_MovingEndsGame ==
    /\ [][moves_made' = moves_made + 1 => movement_timer' < movement_timer]_vars
    /\ [](ongoing
            => LET once == Onward(Game, LowTimerRange[1])
                   twice == Onward(once, LowTimerRange[1])
               IN  ~(/\ once.ongoing /\ twice.ongoing
                     /\ once.movement_timer = movement_timer
                     /\ twice.movement_timer = movement_timer
                     /\ once.energized = energized /\ twice.energized = energized
                     /\ twice.current_location_id = current_location_id))

====
